---- MODULE Spec2Model ----
(***************************************************************************)
(* State-machine model of the provisioning orchestration engine            *)
(* (src/OS_install/provision.py): main / worker fan-out under a semaphore, *)
(* the flock-based per-host workspace lock, terraform_apply's retry loop,  *)
(* address resolution, the readiness probe and the ansible stages.         *)
(*                                                                         *)
(* One engine run is modelled in full (its tasks are the indexes of the    *)
(* `selected` list); a second, separately started engine process is        *)
(* modelled by the part of it the first one can observe: its task's        *)
(* passage through the lock-guarded section of provision_host.             *)
(*                                                                         *)
(* An external command is one action: the await of the child, with its     *)
(* exit status chosen by the environment.  The synchronous code between    *)
(* two awaits is split into several actions; this only adds interleavings. *)
(* A blocking flock() call stops the whole event-loop thread: while a task *)
(* of the run sits in it, no other action of the run is enabled.           *)
(***************************************************************************)
EXTENDS Integers, Sequences, FiniteSets, TLC

\* ---------------------------------------------------------------- bounds
\* Largest number of entries of the selected host list of a run.
MaxHosts == 2
\* Largest --concurrency value tried.
MaxConcurrency == 2
\* Largest max_retries argument tried when terraform_apply is called alone.
MaxRetriesArg == 3

\* ------------------------------------------------------- program constants
\* max_retries passed by provision_host.
ProvisionMaxRetriesMutant == MaxRetriesArg

ProvisionMaxRetries == 2
\* The backoff factor: wait_time = 15 * (attempt + 1).
BackoffUnit == 15
\* Seconds given to the VM to boot before the health check.
BootGrace == 30
\* Seconds slept between two polls of check_vm_health.
PollInterval == 10
\* The timeout provision_host gives check_vm_health (also its default).
HealthTimeout == 300
\* ssh -o ConnectTimeout=5: the seconds an unanswered probe takes.
SshConnectTimeout == 5
\* --concurrency when the option is not given.
DefaultConcurrency == 4

\* ------------------------------------------------------------ host names
\* A host name is the sequence of its dot-separated components.
HostNames == { <<"web">>, <<"db", "com">>, <<"db", "org">>, <<"web", "lock">> }

\* host_dir = root_build / vm.name
HostDir(name) == name

\* lock_path = host_dir.with_suffix(".lock"): pathlib replaces the last
\* suffix of the final path component when there is one, else appends.
WithSuffixLock(path) ==
    IF Len(path) > 1
    THEN SubSeq(path, 1, Len(path) - 1) \o <<"lock">>
    ELSE path \o <<"lock">>

LockPath(name) == WithSuffixLock(HostDir(name))

LockPaths == { LockPath(n) : n \in HostNames }

\* ------------------------------------------------- the build directory
\* The paths under build/ the engine touches: the hosts' workspaces and
\* their lock files.
Paths == LockPaths \cup { HostDir(n) : n \in HostNames }

\* What is at a path: nothing, a regular file, an empty directory, a
\* directory with content.
IsDir(k) == k \in {"empty", "used"}

\* ensure_clean_dir(path, clean=True): a directory is removed with
\* shutil.rmtree(ignore_errors=True) and made again with exist_ok=True, so
\* when the removal fails the content stays and nothing is raised; a file
\* is unlinked and a directory made in its place.
EnsureCleanDir(k, removed) ==
    IF k = "used" /\ ~removed THEN "used" ELSE "empty"

\* ------------------------------------------------------------- inputs
Stages == {"infra", "pxe", "os", "post"}

\* VMSpec: the fields the orchestration reads.
VMSpecs == [name : HostNames, hypervisor : {"proxmox", "baremetal"},
            boot_method : {"iso", "pxe"}]

\* OSInstallConfig: os and network.dhcp / network.address_cidr.  The model
\* validator guarantees address_cidr for a static network.
\* address_cidr is the sequence of its "/"-separated parts, <<>> for None.
\* users is the state of the users list: "none" for an empty list, "bare"
\* when a user has no authorized key, "keyed" when every user has one.
NoInstall == [os |-> "none", dhcp |-> FALSE, cidr |-> << >>, users |-> "none"]
InstallConfigs ==
    { [os |-> o, dhcp |-> TRUE, cidr |-> << >>, users |-> "keyed"] :
        o \in {"ubuntu", "nixos"} }
    \cup
    { [os |-> o, dhcp |-> FALSE, cidr |-> << "192.0.2.10", "24" >>,
       users |-> "keyed"] : o \in {"ubuntu", "nixos"} }
    \cup
    { [os |-> "ubuntu", dhcp |-> FALSE, cidr |-> << "192.0.2.10", "24" >>,
       users |-> u] : u \in {"none", "bare"} }

\* check_vm_health: where the clock of the running call stands against the
\* timeout ("idle": no call is running; "zero": just started; "later": time
\* has passed), and two history flags, recorded like cmds: whether a call
\* made an ssh probe, and a cloud-init status query.  When a call is
\* followed second by second the clock is "timed" and the record carries
\* the seconds elapsed since start_time and the timeout.
HcIdle == [clock |-> "idle", ssh |-> FALSE, status |-> FALSE]

\* ---------------------------------------------------------------- state
VARIABLES
    fcntl,        \* TRUE iff the fcntl module could be imported
    concurrency,  \* args.concurrency
    targets,      \* set(args.targets)
    selected,     \* the list of selected VMSpec
    installs,     \* config.installs: host name -> OSInstallConfig
    pc,           \* position of each worker task
    semFree,      \* free permits of the semaphore
    flock,        \* lock path -> set of holders of the exclusive flock
    ext,          \* the other engine process: host it is provisioning
    results,      \* the results list of main
    mainPc,       \* position of main
    exitCode,     \* exit status of the engine process
    maxRetries,   \* terraform_apply's max_retries, per task
    attempt,      \* terraform_apply's loop variable, per task
    tfOut,        \* what terraform_apply returned / the address found
    vmIp,         \* vm_ip_for_tasks, per task
    err,          \* the exception a task ended with
    cmds,         \* per task: the external commands and sleeps, in order
    tenantKey,    \* TRUE iff the tenant's id_ed25519 key pair exists
    hc,           \* per task: the state of its check_vm_health call
    trace,        \* TRUE iff the history variable cmds is being recorded
    endpoint,     \* TRUE iff a Proxmox API endpoint is configured
    fs,           \* the build directory: what is at each path
    proc          \* a run_cmd call taken on its own: the call and its child

vars == << fcntl, concurrency, targets, selected, installs, pc, semFree,
           flock, ext, results, mainPc, exitCode, maxRetries, attempt,
           tfOut, vmIp, err, cmds, tenantKey, hc, trace, endpoint, fs,
           proc >>

\* Groups of variables an action leaves alone.  The steps of a run take
\* each command as a whole: they leave proc alone, as they do the inputs.
inputVars == << fcntl, concurrency, targets, selected, trace, endpoint, proc >>
mainVars == << results, mainPc, exitCode >>
tfVars == << maxRetries, attempt, tfOut >>

Tasks == DOMAIN selected

\* Holders of a flock: a task of this run, or the other engine's task.
RunTask(t) == <<"run", t>>
ExtTask == <<"ext", 0>>
NoHost == <<>>

NameOf(t) == selected[t].name

\* ----------------------------------------------------------- log entries
Cmd(c, ok) == [cmd |-> c, ok |-> ok, secs |-> 0]
Sleep(s) == [cmd |-> "sleep", ok |-> TRUE, secs |-> s]

\* cmds is a history variable: no action reads it.  It is recorded in the
\* specifications of a single call or a single host.
Log(t, e) == cmds' = IF trace THEN [cmds EXCEPT ![t] = Append(@, e)] ELSE cmds

\* Number of entries of log l that satisfy Test.
RECURSIVE CountIn(_, _, _)
CountIn(l, c, ok) ==
    IF l = <<>> THEN 0
    ELSE (IF Head(l).cmd = c /\ Head(l).ok \in ok THEN 1 ELSE 0)
         + CountIn(Tail(l), c, ok)

Count(l, c) == CountIn(l, c, BOOLEAN)
CountOk(l, c) == CountIn(l, c, {TRUE})
CountFailed(l, c) == CountIn(l, c, {FALSE})

\* -------------------------------------------------------- task plumbing
\* Positions at which a task is suspended in an await (a child process, a
\* sleep, the semaphore) or has ended.  At any other position the task is
\* running synchronous code on the event-loop thread; "flock" is the
\* blocking flock() call itself.
Yields == {"pending", "sem", "tf_init", "tf_validate", "tf_plan", "tf_apply",
           "tf_output", "tf_destroy", "tf_sleep", "grace", "hc_ssh",
           "hc_status", "hc_sleep", "pxe", "os", "nix_fallback", "post",
           "done", "raised", "cancelled"}

\* The event loop runs one task at a time: every other task is suspended.
LoopFreeFor(t) == \A u \in Tasks \ {t} : pc[u] \in Yields

ProcFree == \A t \in Tasks : pc[t] \in Yields

\* main is awaiting asyncio.gather and the loop can run task t.
CanRun(t) == t \in Tasks /\ mainPc = "gather" /\ LoopFreeFor(t)

Goto(t, p) == pc' = [pc EXCEPT ![t] = p]

HostResult(n, e) == [name |-> n, err |-> e]

\* filelock's finally: LOCK_UN and the close of the file handle.
Unlocked(t) == [p \in LockPaths |-> flock[p] \ {RunTask(t)}]

\* Positions inside `async with sem`.
UnderSem == {"key", "lock", "flock", "clean", "try", "tf_init", "tf_validate",
             "tf_plan", "tf_apply", "tf_output", "tf_destroy", "tf_sleep",
             "tf_ret", "tf_exc", "grace", "hc_loop", "hc_ssh", "hc_status",
             "hc_sleep", "ansible", "pxe", "os", "nix_fallback", "post",
             "ret", "caught"}

\* Positions inside `async with filelock(lock_path)`.
InLock == UnderSem \ {"key", "lock", "flock"}

\* An exception leaves provision_host and worker: the context managers
\* release the lock and the permit, nothing is appended to results, and
\* gather (return_exceptions is not set) hands the exception to main.
EscapeMutant(t, e) ==
    /\ Goto(t, "raised")
    /\ err' = [err EXCEPT ![t] = e]
    /\ flock' = flock
    /\ semFree' = semFree + 1
    /\ UNCHANGED results

Escape(t, e) ==
    /\ Goto(t, "raised")
    /\ err' = [err EXCEPT ![t] = e]
    /\ flock' = Unlocked(t)
    /\ semFree' = semFree + 1
    /\ UNCHANGED results

\* provision_host returns (vm.name, e) from inside the lock; worker
\* appends it to results and leaves `async with sem`.
FinishMutant(t, e) ==
    /\ Goto(t, "done")
    /\ err' = [err EXCEPT ![t] = e]
    /\ results' = IF e = "none" THEN Append(results, HostResult(NameOf(t), e))
                  ELSE results
    /\ flock' = Unlocked(t)
    /\ semFree' = semFree + 1

Finish(t, e) ==
    /\ Goto(t, "done")
    /\ err' = [err EXCEPT ![t] = e]
    /\ results' = Append(results, HostResult(NameOf(t), e))
    /\ flock' = Unlocked(t)
    /\ semFree' = semFree + 1

\* ------------------------------------------------------ main and worker
\* asyncio.Semaphore: acquire() returns at once, without suspending the
\* task, when the semaphore is not locked.
SemAvailableMutant == TRUE

SemAvailable == semFree > 0

\* worker(vm) up to and including `async with sem`; gather starts the
\* workers in the order of the list.
WorkerStart(t) ==
    /\ CanRun(t) /\ pc[t] = "pending"
    /\ \A u \in Tasks : u < t => pc[u] # "pending"
    /\ IF installs[NameOf(t)] = NoInstall
       THEN /\ Goto(t, "done")
            /\ err' = [err EXCEPT ![t] = "RuntimeError: Missing install_config"]
            /\ results' = Append(results, HostResult(NameOf(t), "RuntimeError: Missing install_config"))
            /\ UNCHANGED semFree
       ELSE /\ IF SemAvailable
               THEN Goto(t, "key") /\ semFree' = semFree - 1
               ELSE Goto(t, "sem") /\ UNCHANGED semFree
            /\ UNCHANGED << err, results >>
    /\ UNCHANGED << inputVars, installs, flock, ext, mainPc, exitCode,
                    tfVars, vmIp, cmds, tenantKey, hc, fs >>

\* A task that found the semaphore locked acquires it when a permit is
\* free.
AcquireSem(t) ==
    /\ CanRun(t) /\ pc[t] = "sem"
    /\ SemAvailable
    /\ semFree' = semFree - 1
    /\ Goto(t, "key")
    /\ UNCHANGED << inputVars, installs, flock, ext, mainVars, tfVars, vmIp,
                    err, cmds, tenantKey, hc, fs >>

\* provision_host, lines 679-684: the tenant key check; ssh-keygen is run
\* (subprocess.run, check=True) when the key pair is missing.
TenantKey(t) ==
    /\ CanRun(t) /\ pc[t] = "key"
    /\ IF tenantKey
       THEN /\ Goto(t, "lock")
            /\ UNCHANGED << tenantKey, cmds, err, flock, semFree, results >>
       ELSE \E ok \in BOOLEAN :
              /\ Log(t, Cmd("ssh-keygen", ok))
              /\ tenantKey' = ok
              /\ IF ok
                 THEN Goto(t, "lock") /\ UNCHANGED << err, flock, semFree, results >>
                 ELSE Escape(t, "CalledProcessError")
    /\ UNCHANGED << inputVars, installs, ext, mainPc, exitCode, tfVars, vmIp, hc, fs >>

\* filelock: mkdir of the parent and open(lock_path, "w") may raise, and
\* open does raise when a directory is at lock_path; with
\* fcntl the flock(LOCK_EX) call returns at once when no other open file
\* holds the lock and blocks the thread otherwise; without fcntl the
\* context manager yields without locking.
LockFreeMutant(p) == TRUE

LockFree(p) == flock[p] = {}

LockEnter(t) ==
    /\ CanRun(t) /\ pc[t] = "lock"
    /\ \/ /\ Escape(t, "OSError: lock file")
          /\ UNCHANGED fs
       \/ /\ ~fcntl
          /\ Goto(t, "clean")
          /\ UNCHANGED << err, flock, semFree, results, fs >>
       \/ /\ fcntl /\ ~IsDir(fs[LockPath(NameOf(t))])
          /\ fs' = [fs EXCEPT ![LockPath(NameOf(t))] = "file"]
          /\ IF LockFree(LockPath(NameOf(t)))
             THEN /\ flock' = [flock EXCEPT ![LockPath(NameOf(t))] = @ \cup {RunTask(t)}]
                  /\ Goto(t, "clean")
             ELSE /\ Goto(t, "flock")
                  /\ UNCHANGED flock
          /\ UNCHANGED << err, semFree, results >>
    /\ UNCHANGED << inputVars, installs, ext, mainPc, exitCode, tfVars, vmIp,
                    cmds, tenantKey, hc >>

\* The blocked flock(LOCK_EX) call returns once the lock is free.
FlockWake(t) ==
    /\ t \in Tasks /\ pc[t] = "flock"
    /\ LockFree(LockPath(NameOf(t)))
    /\ flock' = [flock EXCEPT ![LockPath(NameOf(t))] = @ \cup {RunTask(t)}]
    /\ Goto(t, "clean")
    /\ UNCHANGED << inputVars, installs, semFree, ext, mainVars, tfVars, vmIp,
                    err, cmds, tenantKey, hc, fs >>

\* ensure_clean_dir(host_dir), line 688: inside the lock, before the try.
CleanDir(t) ==
    /\ CanRun(t) /\ pc[t] = "clean"
    /\ \/ /\ \E removed \in BOOLEAN :
               fs' = [fs EXCEPT ![HostDir(NameOf(t))] = EnsureCleanDir(@, removed)]
          /\ Goto(t, "try")
          /\ UNCHANGED << err, flock, semFree, results >>
       \/ /\ Escape(t, "OSError: build dir")
          /\ UNCHANGED fs
    /\ UNCHANGED << inputVars, installs, ext, mainPc, exitCode, tfVars, vmIp,
                    cmds, tenantKey, hc >>

\* ------------------------------------------------------ terraform_apply
\* The output maps `terraform output -json` may deliver: without a vm_ip
\* key, with a null value, with the placeholder, or with an address.
OutputMaps == {"no_vm_ip", "null", "dhcp-pending", "198.51.100.7"}

\* for attempt in range(max_retries): the test at the head of the loop;
\* the line after the loop returns {}.
LoopHeadMutant(t, a) ==
    IF a < maxRetries[t] + 1
    THEN /\ Goto(t, "tf_plan")
         /\ attempt' = [attempt EXCEPT ![t] = a]
         /\ UNCHANGED tfOut
    ELSE /\ Goto(t, "tf_ret")
         /\ attempt' = [attempt EXCEPT ![t] = 0]
         /\ tfOut' = [tfOut EXCEPT ![t] = "empty"]

LoopHead(t, a) ==
    IF a < maxRetries[t]
    THEN /\ Goto(t, "tf_plan")
         /\ attempt' = [attempt EXCEPT ![t] = a]
         /\ UNCHANGED tfOut
    ELSE /\ Goto(t, "tf_ret")
         /\ attempt' = [attempt EXCEPT ![t] = 0]
         /\ tfOut' = [tfOut EXCEPT ![t] = "empty"]

\* except ShellError: retry after cleanup while attempts remain, else
\* re-raise.
RetriesLeftMutant(t) == attempt[t] < maxRetries[t]

RetriesLeft(t) == attempt[t] < maxRetries[t] - 1

\* error_msg = str(e): run_cmd's "Command failed (rc): " and the command
\* line, in lower case (error_msg.lower()), as the list of its words.
ErrorMsg(c) ==
    << "command", "failed", "(rc):", "terraform", c >>
    \o (IF c = "plan" THEN << "-input=false", "-out=tfplan" >>
                      ELSE << "-auto-approve", "-input=false", "tfplan" >>)

\* `w in error_msg.lower()`: no word of a message has one of the tested
\* words as a proper part, so the test is a test of the words.
Has(msg, w) == \E i \in DOMAIN msg : msg[i] = w

\* The if / elif chain of the except clause: which line is printed.
MessageClasses == {"timeout", "agent", "lock", "other"}

Classify(msg) ==
    IF Has(msg, "timeout") THEN "timeout"
    ELSE IF Has(msg, "agent") THEN "agent"
    ELSE IF Has(msg, "lock") THEN "lock"
    ELSE "other"

\* Where the except clause goes after the line for class k is printed.
AfterShellErrorMutant(t, k) ==
    IF RetriesLeft(t) /\ k # "lock" THEN "tf_destroy" ELSE "tf_exc"

AfterShellError(t, k) ==
    IF RetriesLeft(t) THEN "tf_destroy" ELSE "tf_exc"

\* The except clause for the ShellError of command c.  (The loop variable
\* is a local of the call: it is cleared when the call ends.)
OnShellError(t, c) ==
    /\ Goto(t, AfterShellError(t, Classify(ErrorMsg(c))))
    /\ attempt' = IF AfterShellError(t, Classify(ErrorMsg(c))) = "tf_destroy"
                  THEN attempt ELSE [attempt EXCEPT ![t] = 0]

tfFrame == << inputVars, installs, semFree, flock, ext, mainVars, vmIp, err,
              tenantKey, hc, fs >>

\* terraform init -upgrade: run once, a failure propagates.
TfInitMutant(t) ==
    /\ CanRun(t) /\ pc[t] = "tf_init"
    /\ \E ok \in BOOLEAN :
         /\ Log(t, Cmd("init", ok))
         /\ Goto(t, "tf_validate")
    /\ UNCHANGED << tfFrame, tfVars >>

TfInit(t) ==
    /\ CanRun(t) /\ pc[t] = "tf_init"
    /\ \E ok \in BOOLEAN :
         /\ Log(t, Cmd("init", ok))
         /\ Goto(t, IF ok THEN "tf_validate" ELSE "tf_exc")
    /\ UNCHANGED << tfFrame, tfVars >>

\* terraform validate: run once, a failure propagates.
TfValidate(t) ==
    /\ CanRun(t) /\ pc[t] = "tf_validate"
    /\ \E ok \in BOOLEAN :
         /\ Log(t, Cmd("validate", ok))
         /\ IF ok THEN LoopHead(t, 0)
                  ELSE Goto(t, "tf_exc") /\ UNCHANGED << tfOut, attempt >>
    /\ UNCHANGED << tfFrame, maxRetries >>

TfPlan(t) ==
    /\ CanRun(t) /\ pc[t] = "tf_plan"
    /\ \E ok \in BOOLEAN :
         /\ Log(t, Cmd("plan", ok))
         /\ IF ok THEN Goto(t, "tf_apply") /\ UNCHANGED attempt
                  ELSE OnShellError(t, "plan")
    /\ UNCHANGED << tfFrame, maxRetries, tfOut >>

TfApply(t) ==
    /\ CanRun(t) /\ pc[t] = "tf_apply"
    /\ \E ok \in BOOLEAN :
         /\ Log(t, Cmd("apply", ok))
         /\ IF ok THEN Goto(t, "tf_output") /\ UNCHANGED attempt
                  ELSE OnShellError(t, "apply")
    /\ UNCHANGED << tfFrame, maxRetries, tfOut >>

\* if proc.returncode != 0: return {}
OutputFailedMutant(t) == OnShellError(t, "output") /\ UNCHANGED tfOut

OutputFailed(t) ==
    /\ tfOut' = [tfOut EXCEPT ![t] = "empty"]
    /\ Goto(t, "tf_ret")
    /\ attempt' = [attempt EXCEPT ![t] = 0]

\* terraform output -json: a non-zero exit gives {}, else the parsed map.
TfOutput(t) ==
    /\ CanRun(t) /\ pc[t] = "tf_output"
    /\ \/ /\ Log(t, Cmd("output", FALSE))
          /\ OutputFailed(t)
       \/ /\ Log(t, Cmd("output", TRUE))
          /\ \E m \in OutputMaps : tfOut' = [tfOut EXCEPT ![t] = m]
          /\ Goto(t, "tf_ret")
          /\ attempt' = [attempt EXCEPT ![t] = 0]
    /\ UNCHANGED << tfFrame, maxRetries >>

\* terraform destroy between attempts: its ShellError is swallowed.
TfDestroy(t) ==
    /\ CanRun(t) /\ pc[t] = "tf_destroy"
    /\ \E ok \in BOOLEAN : Log(t, Cmd("destroy", ok))
    /\ Goto(t, "tf_sleep")
    /\ UNCHANGED << tfFrame, tfVars >>

\* wait_time = 15 * (attempt + 1); asyncio.sleep(wait_time); next attempt.
WaitTimeMutant(a) == BackoffUnit

WaitTime(a) == BackoffUnit * (a + 1)

TfSleep(t) ==
    /\ CanRun(t) /\ pc[t] = "tf_sleep"
    /\ Log(t, Sleep(WaitTime(attempt[t])))
    /\ LoopHead(t, attempt[t] + 1)
    /\ UNCHANGED << tfFrame, maxRetries >>

\* ------------------------------------------------------- provision_host
pipeFrame == << inputVars, semFree, flock, ext, mainVars, tenantKey >>

\* An exception caught by `except Exception as e` of provision_host.
CaughtMutant(t, e) == Goto(t, "ret") /\ UNCHANGED err

Caught(t, e) == Goto(t, "caught") /\ err' = [err EXCEPT ![t] = e]

\* The stage gates after the inventory is rendered, after pxe, after os.
AfterOs(t) == IF "post" \in targets THEN "post" ELSE "ret"

AfterPxeMutant(t) == AfterOs(t)

AfterPxe(t) == IF "os" \in targets THEN "os" ELSE AfterOs(t)

\* vm.hypervisor == "baremetal" or vm.boot_method == "pxe"
NeedsPxeMutant(v) == TRUE

NeedsPxe(v) == v.hypervisor = "baremetal" \/ v.boot_method = "pxe"

AfterRender(t) ==
    IF NeedsPxe(selected[t]) /\ "pxe" \in targets
    THEN "pxe"
    ELSE AfterPxe(t)

\* A step of provision_host wrote into the workspace of task t.
Written(t) == fs' = [fs EXCEPT ![HostDir(NameOf(t))] = "used"]

\* Lines 690-702: for a proxmox VM render the terraform module (which
\* makes the tf directory, then raises when no endpoint is configured),
\* set vm_ip_for_tasks = None and, when infra is selected, call
\* terraform_apply(host_dir / "tf", max_retries=2).
TryStart(t) ==
    /\ CanRun(t) /\ pc[t] = "try"
    /\ IF selected[t].hypervisor = "proxmox"
       THEN \/ /\ Caught(t, "RenderError")
               /\ Written(t)
               /\ UNCHANGED << vmIp, maxRetries, attempt >>
            \/ /\ ~endpoint
               /\ Caught(t, "RuntimeError: Missing Proxmox API endpoint")
               /\ Written(t)
               /\ UNCHANGED << vmIp, maxRetries, attempt >>
            \/ /\ endpoint
               /\ Written(t)
               /\ vmIp' = [vmIp EXCEPT ![t] = "None"]
               /\ IF "infra" \in targets
                  THEN /\ Goto(t, "tf_init")
                       /\ maxRetries' = [maxRetries EXCEPT ![t] = ProvisionMaxRetries]
                       /\ attempt' = [attempt EXCEPT ![t] = 0]
                  ELSE /\ Goto(t, "ansible")
                       /\ UNCHANGED << maxRetries, attempt >>
               /\ UNCHANGED err
       ELSE /\ Goto(t, "ansible")
            /\ UNCHANGED << vmIp, maxRetries, attempt, err, fs >>
    /\ UNCHANGED << pipeFrame, installs, tfOut, cmds, hc >>

\* new_ip and new_ip != "dhcp-pending", with
\* new_ip = tf_outputs.get("vm_ip", {}).get("value")
UsableMutant(m) == m \notin {"empty", "no_vm_ip", "null"}

Usable(m) == m \notin {"empty", "no_vm_ip", "null", "dhcp-pending"}

\* (install.network.address_cidr or "").split("/")[0]
FirstPart(cidr) == IF cidr = << >> THEN "" ELSE Head(cidr)

\* if vm_ip_for_tasks: the grace wait and the health check, else on to
\* the ansible part.
AfterResolveMutant(ip) == "ansible"

AfterResolve(ip) == IF ip # "" THEN "grace" ELSE "ansible"

\* Lines 704-722: the address comes from the terraform outputs for dhcp
\* (and is written back to install.network.address_cidr), else from the
\* static configuration; a missing or pending dhcp address returns
\* (vm.name, e).
ResolveAddress(t) ==
    /\ CanRun(t) /\ pc[t] = "tf_ret"
    /\ IF installs[NameOf(t)].dhcp
       THEN IF Usable(tfOut[t])
            THEN /\ vmIp' = [vmIp EXCEPT ![t] = tfOut[t]]
                 /\ installs' = [installs EXCEPT ![NameOf(t)].cidr = << tfOut[t] >>]
                 /\ Goto(t, AfterResolve(tfOut[t]))
                 /\ UNCHANGED err
            ELSE /\ Caught(t, "RuntimeError: DHCP IP not found")
                 /\ UNCHANGED << vmIp, installs >>
       ELSE /\ vmIp' = [vmIp EXCEPT ![t] = FirstPart(installs[NameOf(t)].cidr)]
            /\ Goto(t, AfterResolve(FirstPart(installs[NameOf(t)].cidr)))
            /\ UNCHANGED << err, installs >>
    /\ tfOut' = IF pc'[t] = "caught" THEN tfOut ELSE [tfOut EXCEPT ![t] = "unset"]
    /\ UNCHANGED << pipeFrame, maxRetries, attempt, cmds, hc, fs >>

\* asyncio.sleep(30) before the health check.
Grace(t) ==
    /\ CanRun(t) /\ pc[t] = "grace"
    /\ Log(t, Sleep(BootGrace))
    /\ hc' = [hc EXCEPT ![t].clock = "zero"]
    /\ Goto(t, "hc_loop")
    /\ UNCHANGED << pipeFrame, installs, tfVars, vmIp, err, fs >>

\* check_vm_health returns; provision_host only warns when it is False.
HcReturnMutant(t, healthy, h) ==
    /\ Log(t, Cmd("check_vm_health", healthy))
    /\ hc' = [hc EXCEPT ![t] = [h EXCEPT !.clock = "idle"]]
    /\ Goto(t, IF healthy THEN "ansible" ELSE "ret")

HcReturn(t, healthy, h) ==
    /\ Log(t, Cmd("check_vm_health", healthy))
    /\ hc' = [hc EXCEPT ![t] = [h EXCEPT !.clock = "idle"]]
    /\ Goto(t, "ansible")

\* d more seconds have elapsed in a call that is followed by the second.
Pass(h, d) == IF h.clock = "timed" THEN [h EXCEPT !.elapsed = @ + d] ELSE h

\* The seconds a probe may take.
ProbeSecs(h) == IF h.clock = "timed" THEN {0, SshConnectTimeout} ELSE {0}

\* while (now - start_time) < timeout: the test may hold / may fail.  With
\* timeout = 300 it holds when the call has just started, and later it is
\* decided by the time that has passed.
InTime(h) == IF h.clock = "timed" THEN h.elapsed < h.timeout ELSE TRUE

TimedOutMutant(h) == h.clock # "zero"

TimedOut(h) ==
    IF h.clock = "timed" THEN ~(h.elapsed < h.timeout) ELSE h.clock = "later"

HcLoop(t) ==
    /\ CanRun(t) /\ pc[t] = "hc_loop"
    /\ \/ InTime(hc[t]) /\ Goto(t, "hc_ssh") /\ UNCHANGED << cmds, hc >>
       \/ TimedOut(hc[t]) /\ HcReturn(t, FALSE, hc[t])
    /\ UNCHANGED << pipeFrame, installs, tfVars, vmIp, err, fs >>

\* The ssh probe ("echo 'SSH OK'"); for nixos its success is readiness.
HcSsh(t) ==
    /\ CanRun(t) /\ pc[t] = "hc_ssh"
    /\ \E d \in ProbeSecs(hc[t]) :
       LET h == Pass([hc[t] EXCEPT !.ssh = trace], d)
       IN  \/ Goto(t, "hc_sleep") /\ hc' = [hc EXCEPT ![t] = h] /\ UNCHANGED cmds
           \/ IF installs[NameOf(t)].os = "nixos"
              THEN HcReturn(t, TRUE, h)
              ELSE Goto(t, "hc_status") /\ hc' = [hc EXCEPT ![t] = h]
                   /\ UNCHANGED cmds
    /\ UNCHANGED << pipeFrame, installs, tfVars, vmIp, err, fs >>

\* What "cloud-init status --wait || cloud-init status" may print, as the
\* words of stdout; nothing when the ssh command itself fails.
StatusOutputs ==
    { << "status:", "done" >>, << "status:", "disabled" >>,
      << "status:", "running" >>, << "status:", "error" >>, << >> }

\* b"done" in stdout or b"disabled" in stdout, line 582.
ReadyMutant(out) == out # << "status:", "running" >>

Ready(out) == \E i \in DOMAIN out : out[i] \in {"done", "disabled"}

\* The status check has run and printed out; a call followed by the second
\* keeps the last output.
StatusSeen(h, out) ==
    IF h.clock = "timed" THEN [h EXCEPT !.status = trace, !.out = out]
    ELSE [h EXCEPT !.status = trace]

\* cloud-init status: "done" or "disabled" in the output is readiness.
HcStatus(t) ==
    /\ CanRun(t) /\ pc[t] = "hc_status"
    /\ \E d \in ProbeSecs(hc[t]), out \in StatusOutputs :
       LET h == Pass(StatusSeen(hc[t], out), d)
       IN  IF Ready(out)
           THEN HcReturn(t, TRUE, h)
           ELSE Goto(t, "hc_sleep") /\ hc' = [hc EXCEPT ![t] = h]
                /\ UNCHANGED cmds
    /\ UNCHANGED << pipeFrame, installs, tfVars, vmIp, err, fs >>

\* asyncio.sleep(10) at the end of an iteration.
HcSleep(t) ==
    /\ CanRun(t) /\ pc[t] = "hc_sleep"
    /\ hc' = [hc EXCEPT ![t] = IF @.clock = "timed" THEN Pass(@, PollInterval)
                                ELSE [@ EXCEPT !.clock = "later"]]
    /\ Goto(t, "hc_loop")
    /\ UNCHANGED << pipeFrame, installs, tfVars, vmIp, err, cmds, fs >>

\* render_ansible_inventory, line 737.
\* lines 399-404: every user without an authorized key gets the tenant's
\* public key, and an empty users list becomes the one user "ubuntu" with
\* that key.
WithKeys(install) == [install EXCEPT !.users = "keyed"]

\* The inventory is rendered after the users of the install config are
\* given keys; an error is raised before or after that.
RenderAnsible(t) ==
    /\ CanRun(t) /\ pc[t] = "ansible"
    /\ \/ /\ Goto(t, AfterRender(t)) /\ UNCHANGED err
          /\ installs' = [installs EXCEPT ![NameOf(t)] = WithKeys(@)]
       \/ /\ Caught(t, "RenderError")
          /\ \E keyed \in BOOLEAN :
               installs' = [installs EXCEPT
                              ![NameOf(t)] = IF keyed THEN WithKeys(@) ELSE @]
    /\ Written(t)
    /\ UNCHANGED << pipeFrame, tfVars, vmIp, cmds, hc >>

\* One ansible-playbook run: a non-zero exit raises ShellError.
PlayMutant(t, book, next) ==
    \E ok \in BOOLEAN :
      /\ Log(t, Cmd(book, ok))
      /\ Goto(t, next) /\ UNCHANGED err

Play(t, book, next) ==
    \E ok \in BOOLEAN :
      /\ Log(t, Cmd(book, ok))
      /\ IF ok THEN Goto(t, next) /\ UNCHANGED err ELSE Caught(t, "ShellError")

Pxe(t) ==
    /\ CanRun(t) /\ pc[t] = "pxe"
    /\ Play(t, "pxe_server", AfterPxe(t))
    /\ UNCHANGED << pipeFrame, installs, tfVars, vmIp, hc, fs >>

\* Lines 746-765: ubuntu runs its playbook; nixos tries nixos-anywhere
\* with vm_ip_for_tasks (a name only bound in the proxmox branch), which
\* returns False when the flake is missing or the command fails.
OsInstall(t) ==
    /\ CanRun(t) /\ pc[t] = "os"
    /\ IF installs[NameOf(t)].os = "ubuntu"
       THEN Play(t, "ubuntu_install", AfterOs(t))
       ELSE IF vmIp[t] = "unbound"
            THEN Caught(t, "UnboundLocalError") /\ UNCHANGED cmds
            ELSE \/ Goto(t, "nix_fallback") /\ UNCHANGED << cmds, err >>
                 \/ \E ok \in BOOLEAN :
                      /\ Log(t, Cmd("nixos_anywhere", ok))
                      /\ Goto(t, IF ok THEN AfterOs(t) ELSE "nix_fallback")
                      /\ UNCHANGED err
    /\ UNCHANGED << pipeFrame, installs, tfVars, vmIp, hc, fs >>

\* The fallback playbook nixos_install.yml: its ShellError is fatal.
NixFallbackMutant(t) ==
    /\ CanRun(t) /\ pc[t] = "nix_fallback"
    /\ \E ok \in BOOLEAN : Log(t, Cmd("nixos_install", ok))
    /\ Goto(t, AfterOs(t))
    /\ UNCHANGED << pipeFrame, installs, tfVars, vmIp, hc, err, fs >>

NixFallback(t) ==
    /\ CanRun(t) /\ pc[t] = "nix_fallback"
    /\ Play(t, "nixos_install", AfterOs(t))
    /\ UNCHANGED << pipeFrame, installs, tfVars, vmIp, hc, fs >>

Post(t) ==
    /\ CanRun(t) /\ pc[t] = "post"
    /\ Play(t, "post_config_common", "ret")
    /\ UNCHANGED << pipeFrame, installs, tfVars, vmIp, hc, fs >>

\* return (vm.name, None)
ReturnOk(t) ==
    /\ CanRun(t) /\ pc[t] = "ret"
    /\ Finish(t, "none")
    /\ UNCHANGED << inputVars, installs, ext, mainPc, exitCode, tfVars, vmIp,
                    cmds, tenantKey, hc, fs >>

\* return (vm.name, e): the except clause of provision_host, which also
\* catches the ShellError terraform_apply raised.  (tf_outputs is a local
\* of the call.)
ReturnErrMutant(t) ==
    /\ CanRun(t) /\ pc[t] \in {"caught", "tf_exc"}
    /\ Escape(t, IF pc[t] = "tf_exc" THEN "ShellError" ELSE err[t])
    /\ tfOut' = [tfOut EXCEPT ![t] = "unset"]
    /\ UNCHANGED << inputVars, installs, ext, mainPc, exitCode, maxRetries,
                    attempt, vmIp, cmds, tenantKey, hc, fs >>

ReturnErr(t) ==
    /\ CanRun(t) /\ pc[t] \in {"caught", "tf_exc"}
    /\ Finish(t, IF pc[t] = "tf_exc" THEN "ShellError" ELSE err[t])
    /\ tfOut' = [tfOut EXCEPT ![t] = "unset"]
    /\ UNCHANGED << inputVars, installs, ext, mainPc, exitCode, maxRetries,
                    attempt, vmIp, cmds, tenantKey, hc, fs >>

\* ------------------------------------------------------------------ main
Failures == { i \in 1 .. Len(results) : results[i].err # "none" }

\* gather returned: print the summary, sys.exit(1) when a host failed.
MainSummary ==
    /\ mainPc = "gather" /\ ProcFree
    /\ \A t \in Tasks : pc[t] = "done"
    /\ mainPc' = "summary"
    /\ exitCode' = IF Failures # {} THEN 1 ELSE 0
    /\ UNCHANGED << inputVars, installs, pc, semFree, flock, ext, results,
                    tfVars, vmIp, err, cmds, tenantKey, hc, fs >>

\* gather re-raised a worker's exception: main dies with a traceback
\* before the summary, and asyncio.run cancels what is still running.
MainAbort ==
    /\ mainPc = "gather" /\ ProcFree
    /\ \E t \in Tasks : pc[t] = "raised"
    /\ mainPc' = "aborted"
    /\ exitCode' = 1
    /\ UNCHANGED << inputVars, installs, pc, semFree, flock, ext, results,
                    tfVars, vmIp, err, cmds, tenantKey, hc, fs >>

\* CancelledError in a task that was still running: the context managers
\* unwind, no result is appended.
CancelTask(t) ==
    /\ t \in Tasks /\ mainPc = "aborted"
    /\ pc[t] \notin {"done", "raised", "cancelled"}
    /\ Goto(t, "cancelled")
    /\ flock' = Unlocked(t)
    /\ semFree' = IF pc[t] \in UnderSem THEN semFree + 1 ELSE semFree
    /\ UNCHANGED << inputVars, installs, ext, mainVars, tfVars, vmIp, err,
                    cmds, tenantKey, hc, fs >>

\* ------------------------------------------- the other engine process
\* Its task enters the guarded section of provision_host for host n (one
\* of the hosts of this run): with fcntl only when the flock is free,
\* without fcntl unconditionally.
ExtEnter(n) ==
    /\ ext = NoHost
    /\ fcntl => ~IsDir(fs[LockPath(n)]) /\ LockFree(LockPath(n))
    /\ ext' = n
    /\ flock' = IF fcntl
                THEN [flock EXCEPT ![LockPath(n)] = @ \cup {ExtTask}]
                ELSE flock
    /\ fs' = IF fcntl THEN [fs EXCEPT ![LockPath(n)] = "file"] ELSE fs
    /\ UNCHANGED << inputVars, installs, pc, semFree, mainVars, tfVars, vmIp,
                    err, cmds, tenantKey, hc >>

\* Inside the section it resets its workspace and renders into it.
ExtWork ==
    /\ ext # NoHost
    /\ fs' = [fs EXCEPT ![HostDir(ext)] = "used"]
    /\ UNCHANGED << inputVars, installs, pc, semFree, flock, ext, mainVars,
                    tfVars, vmIp, err, cmds, tenantKey, hc >>

ExtLeave ==
    /\ ext # NoHost
    /\ ext' = NoHost
    /\ flock' = [p \in LockPaths |-> flock[p] \ {ExtTask}]
    /\ UNCHANGED << inputVars, installs, pc, semFree, mainVars, tfVars, vmIp,
                    err, cmds, tenantKey, hc, fs >>

\* --------------------------------------------------------------- run_cmd
\* No run_cmd call is looked into.
NoProc == [pc |-> "none"]

\* The command lines of the calls, as their arguments.
CmdLines ==
    { << "terraform", "validate" >>, << "ansible-playbook", "-i", "hosts.ini" >> }

\* A line the child prints: text in UTF-8, bytes that are not UTF-8, or a
\* line longer than the limit of the StreamReader (64 KiB).
LineKinds == {"utf8", "bad", "long"}

MaxLines == 2

Outputs == UNION { [1 .. n -> LineKinds] : n \in 0 .. MaxLines }

\* The exit codes of a child: 0, an error, the code of ssh (255), and a
\* negative code for a child killed by a signal.
ExitCodes == {0, 1, 255, -9}

\* ' '.join(cmd)
RECURSIVE Join(_)
Join(cmd) ==
    IF Len(cmd) <= 1 THEN cmd
    ELSE << Head(cmd), " " >> \o Join(Tail(cmd))

\* ShellError(f"Command failed ({rc}): {' '.join(cmd)}"), line 195.
ShellErrorOf(rc, cmd) ==
    [type |-> "ShellError",
     msg |-> << "Command failed (", rc, "): " >> \o Join(cmd)]

\* An exception other than ShellError, with no message of run_cmd.
Exc(type) == [type |-> type, msg |-> << >>]

\* The calls run_cmd(*cmd) with a child that prints the lines out and
\* exits with rc, or with no program to start.
RunCmdCalls ==
    { [pc |-> "spawn", cmd |-> c, found |-> f, out |-> o, rc |-> r,
       written |-> 0, exc |-> Exc("none")] :
        c \in CmdLines, f \in BOOLEAN, o \in Outputs, r \in ExitCodes }

\* asyncio.create_subprocess_exec, lines 184-187.
RunCmdSpawn ==
    /\ proc.pc = "spawn"
    /\ proc' = IF proc.found
               THEN [proc EXCEPT !.pc = "read"]
               ELSE [proc EXCEPT !.pc = "raised", !.exc = Exc("FileNotFoundError")]
    /\ UNCHANGED << fcntl, concurrency, targets, selected, installs, pc,
                    semFree, flock, ext, results, mainPc, exitCode,
                    maxRetries, attempt, tfOut, vmIp, err, cmds, tenantKey,
                    hc, trace, endpoint, fs >>

\* line.decode(): strict UTF-8.
Decodes(kind) == kind = "utf8"

\* One turn of `async for line in proc.stdout: sys.stdout.write(
\* line.decode())`, lines 189-190: readline raises ValueError for a line
\* over the limit, decode raises UnicodeDecodeError; at the end of the
\* output the loop is left.
RunCmdRead ==
    /\ proc.pc = "read"
    /\ proc' = IF proc.out = << >> THEN [proc EXCEPT !.pc = "wait"]
               ELSE IF Head(proc.out) = "long"
               THEN [proc EXCEPT !.pc = "raised", !.exc = Exc("ValueError")]
               ELSE IF ~Decodes(Head(proc.out))
               THEN [proc EXCEPT !.pc = "raised", !.exc = Exc("UnicodeDecodeError")]
               ELSE [proc EXCEPT !.out = Tail(@), !.written = @ + 1]
    /\ UNCHANGED << fcntl, concurrency, targets, selected, installs, pc,
                    semFree, flock, ext, results, mainPc, exitCode,
                    maxRetries, attempt, tfOut, vmIp, err, cmds, tenantKey,
                    hc, trace, endpoint, fs >>

\* rc = await proc.wait(); if rc != 0: raise ShellError(...), lines 192-195.
RunCmdWait ==
    /\ proc.pc = "wait"
    /\ proc' = IF proc.rc # 0
               THEN [proc EXCEPT !.pc = "raised",
                                 !.exc = ShellErrorOf(proc.rc, proc.cmd)]
               ELSE [proc EXCEPT !.pc = "returned"]
    /\ UNCHANGED << fcntl, concurrency, targets, selected, installs, pc,
                    semFree, flock, ext, results, mainPc, exitCode,
                    maxRetries, attempt, tfOut, vmIp, err, cmds, tenantKey,
                    hc, trace, endpoint, fs >>

\* ------------------------------------------------------ one engine run
\* What every run starts from, given its inputs.
InitState ==
    /\ pc = [t \in Tasks |-> "pending"]
    /\ semFree = concurrency
    /\ flock = [p \in LockPaths |-> {}]
    /\ ext = NoHost
    /\ results = << >>
    /\ mainPc = "gather"
    /\ exitCode = -1
    /\ maxRetries = [t \in Tasks |-> 0]
    /\ attempt = [t \in Tasks |-> 0]
    /\ tfOut = [t \in Tasks |-> "unset"]
    /\ vmIp = [t \in Tasks |-> "unbound"]
    /\ err = [t \in Tasks |-> "none"]
    /\ cmds = [t \in Tasks |-> << >>]
    /\ hc = [t \in Tasks |-> HcIdle]
    /\ fs = [p \in Paths |-> "absent"]
    /\ proc = NoProc

\* The hosts of a concurrent run: "web" is a dhcp ubuntu VM on proxmox,
\* the "db" hosts are bare-metal ubuntu machines with a static address.
RunVM(n) ==
    IF n = <<"web">>
    THEN [name |-> n, hypervisor |-> "proxmox", boot_method |-> "iso"]
    ELSE [name |-> n, hypervisor |-> "baremetal", boot_method |-> "pxe"]

RunInstall(n) ==
    IF n = <<"web">>
    THEN [os |-> "ubuntu", dhcp |-> TRUE, cidr |-> << >>, users |-> "keyed"]
    ELSE [os |-> "ubuntu", dhcp |-> FALSE, cidr |-> << "192.0.2.10", "24" >>,
          users |-> "keyed"]

\* The scheduler takes the tasks in any order, so the order of the host
\* list does not matter: lists are taken sorted by name.
Rank(n) == Len(n) + (IF n[Len(n)] = "org" THEN 1 ELSE 0)

Sorted(l) == \A i, j \in DOMAIN l : i < j => Rank(l[i].name) <= Rank(l[j].name)

\* At most one entry of the list is the proxmox VM.
OneVM(l) == \A i, j \in DOMAIN l : l[i].hypervisor = "proxmox" /\ l[j].hypervisor = "proxmox" => i = j

\* The host names of these runs.
RunNames == { <<"web">>, <<"db", "com">>, <<"db", "org">> }

\* Runs of MaxHosts hosts, at most one of them the proxmox VM, all four
\* stages selected, the tenant's key pair in place; the names of the
\* bare-metal hosts may repeat or share a lock path.
Init ==
    /\ fcntl \in BOOLEAN
    /\ concurrency \in 1 .. MaxConcurrency
    /\ targets = Stages
    /\ selected \in { l \in [1 .. MaxHosts -> { RunVM(n) : n \in RunNames }] :
                        Sorted(l) /\ OneVM(l) }
    /\ installs = [n \in HostNames |-> RunInstall(n)]
    /\ tenantKey = TRUE
    /\ trace = FALSE
    /\ endpoint = TRUE
    /\ InitState

Next ==
    \/ \E t \in Tasks : WorkerStart(t)
    \/ \E t \in Tasks : AcquireSem(t)
    \/ \E t \in Tasks : TenantKey(t)
    \/ \E t \in Tasks : LockEnter(t)
    \/ \E t \in Tasks : FlockWake(t)
    \/ \E t \in Tasks : CleanDir(t)
    \/ \E t \in Tasks : TryStart(t)
    \/ \E t \in Tasks : TfInit(t)
    \/ \E t \in Tasks : TfValidate(t)
    \/ \E t \in Tasks : TfPlan(t)
    \/ \E t \in Tasks : TfApply(t)
    \/ \E t \in Tasks : TfOutput(t)
    \/ \E t \in Tasks : TfDestroy(t)
    \/ \E t \in Tasks : TfSleep(t)
    \/ \E t \in Tasks : ResolveAddress(t)
    \/ \E t \in Tasks : Grace(t)
    \/ \E t \in Tasks : HcLoop(t)
    \/ \E t \in Tasks : HcSsh(t)
    \/ \E t \in Tasks : HcStatus(t)
    \/ \E t \in Tasks : HcSleep(t)
    \/ \E t \in Tasks : RenderAnsible(t)
    \/ \E t \in Tasks : Pxe(t)
    \/ \E t \in Tasks : OsInstall(t)
    \/ \E t \in Tasks : Post(t)
    \/ \E t \in Tasks : ReturnOk(t)
    \/ \E t \in Tasks : ReturnErr(t)
    \/ \E t \in Tasks : CancelTask(t)
    \/ \E t \in Tasks : ExtEnter(NameOf(t))
    \/ ExtWork
    \/ ExtLeave
    \/ MainSummary
    \/ MainAbort

Spec == Init /\ [][Next]_vars

\* The steps of task t of the run.
TaskStep(t) ==
    \/ WorkerStart(t) \/ AcquireSem(t) \/ TenantKey(t) \/ LockEnter(t)
    \/ FlockWake(t) \/ CleanDir(t) \/ TryStart(t) \/ TfInit(t)
    \/ TfValidate(t) \/ TfPlan(t) \/ TfApply(t) \/ TfOutput(t)
    \/ TfDestroy(t) \/ TfSleep(t) \/ ResolveAddress(t) \/ Grace(t)
    \/ HcLoop(t) \/ HcSsh(t) \/ HcStatus(t) \/ HcSleep(t)
    \/ RenderAnsible(t) \/ Pxe(t) \/ OsInstall(t) \/ Post(t)
    \/ ReturnOk(t) \/ ReturnErr(t) \/ CancelTask(t)

\* The event loop takes its ready callbacks in FIFO order, so a task or
\* main that can run does run; children and sleeps end; the loop of
\* check_vm_health ends at its timeout; a waiting flock() call returns
\* when the lock stays free.  Nothing is assumed of the other engine
\* process.
Fairness ==
    /\ \A t \in 1 .. MaxHosts :
          /\ WF_vars(TaskStep(t))
          /\ SF_vars(HcLoop(t) /\ pc'[t] = "ansible")
    /\ WF_vars(MainSummary)
    /\ WF_vars(MainAbort)

SpecLive == Spec /\ Fairness

\* ------------------------------------- a host named like a lock file
\* VMSpec.name is any string: a run with the VM "web" and a bare-metal
\* host "web.lock", whose workspace is the path of the VM's lock file and
\* of its own.
DirNames == { <<"web">>, <<"web", "lock">> }

InitDirs ==
    /\ fcntl \in BOOLEAN
    /\ concurrency \in 1 .. MaxConcurrency
    /\ targets = Stages
    /\ selected \in { l \in [1 .. MaxHosts -> { RunVM(n) : n \in DirNames }] :
                        Sorted(l) /\ OneVM(l) }
    /\ installs = [n \in HostNames |-> RunInstall(n)]
    /\ tenantKey = TRUE
    /\ trace = FALSE
    /\ endpoint = TRUE
    /\ InitState

SpecDirs == InitDirs /\ [][Next]_vars

\* ------------------------------------- a run without the tenant's key
\* VMSpec has no tenant field, so every host is of the tenant "default":
\* a run of the VM "web" and the bare-metal host "db.com" that starts
\* when the tenant's key pair does not exist yet, with its commands
\* recorded.
InitKeys ==
    /\ fcntl = TRUE
    /\ concurrency \in 1 .. MaxConcurrency
    /\ targets = Stages
    /\ selected = << RunVM(<<"web">>), RunVM(<<"db", "com">>) >>
    /\ installs = [n \in HostNames |-> RunInstall(n)]
    /\ tenantKey = FALSE
    /\ trace = TRUE
    /\ endpoint = TRUE
    /\ InitState

SpecKeys == InitKeys /\ [][Next]_vars

\* ------------------------------------------------ run_cmd called alone
\* One call of run_cmd for every command line, output and exit code; no
\* host is being provisioned.
InitRunCmd ==
    /\ fcntl = TRUE
    /\ concurrency = DefaultConcurrency
    /\ targets = {}
    /\ selected = << >>
    /\ installs = [n \in HostNames |-> NoInstall]
    /\ tenantKey = TRUE
    /\ trace = TRUE
    /\ endpoint = TRUE
    /\ pc = << >>
    /\ semFree = DefaultConcurrency
    /\ flock = [p \in LockPaths |-> {}]
    /\ ext = NoHost
    /\ results = << >>
    /\ mainPc = "gather"
    /\ exitCode = -1
    /\ maxRetries = << >>
    /\ attempt = << >>
    /\ tfOut = << >>
    /\ vmIp = << >>
    /\ err = << >>
    /\ cmds = << >>
    /\ hc = << >>
    /\ fs = [p \in Paths |-> "absent"]
    /\ proc \in RunCmdCalls

NextRunCmd ==
    \/ RunCmdSpawn
    \/ RunCmdRead
    \/ RunCmdWait

SpecRunCmd == InitRunCmd /\ [][NextRunCmd]_vars

\* ------------------------------------------------- one host, every input
\* A run of one host with every host kind, install configuration and
\* stage selection, --concurrency not given; the other engine process is
\* left out.
InitHost ==
    /\ fcntl \in BOOLEAN
    /\ concurrency = DefaultConcurrency
    /\ targets \in SUBSET Stages
    /\ selected \in [{1} -> { v \in VMSpecs : v.name = <<"web">> }]
    /\ installs \in { [n \in HostNames |-> i] : i \in InstallConfigs \cup {NoInstall} }
    /\ tenantKey \in BOOLEAN
    /\ trace = TRUE
    /\ endpoint \in BOOLEAN
    /\ InitState

NextHost ==
    \/ \E t \in Tasks : WorkerStart(t)
    \/ \E t \in Tasks : TenantKey(t)
    \/ \E t \in Tasks : LockEnter(t)
    \/ \E t \in Tasks : CleanDir(t)
    \/ \E t \in Tasks : TryStart(t)
    \/ \E t \in Tasks : TfInit(t)
    \/ \E t \in Tasks : TfValidate(t)
    \/ \E t \in Tasks : TfPlan(t)
    \/ \E t \in Tasks : TfApply(t)
    \/ \E t \in Tasks : TfOutput(t)
    \/ \E t \in Tasks : TfDestroy(t)
    \/ \E t \in Tasks : TfSleep(t)
    \/ \E t \in Tasks : ResolveAddress(t)
    \/ \E t \in Tasks : Grace(t)
    \/ \E t \in Tasks : HcLoop(t)
    \/ \E t \in Tasks : HcSsh(t)
    \/ \E t \in Tasks : HcStatus(t)
    \/ \E t \in Tasks : HcSleep(t)
    \/ \E t \in Tasks : RenderAnsible(t)
    \/ \E t \in Tasks : Pxe(t)
    \/ \E t \in Tasks : OsInstall(t)
    \/ \E t \in Tasks : NixFallback(t)
    \/ \E t \in Tasks : Post(t)
    \/ \E t \in Tasks : ReturnOk(t)
    \/ \E t \in Tasks : ReturnErr(t)
    \/ MainSummary
    \/ MainAbort

SpecHost == InitHost /\ [][NextHost]_vars

\* ---------------------------------------- terraform_apply called alone
\* One call terraform_apply(tf_dir, max_retries) for every max_retries in
\* 0 .. MaxRetriesArg, outside any pipeline.
InitApply ==
    /\ fcntl = TRUE
    /\ concurrency = 1
    /\ targets = {"infra"}
    /\ selected = << [name |-> <<"web">>, hypervisor |-> "proxmox",
                      boot_method |-> "iso"] >>
    /\ installs = [n \in HostNames |-> [os |-> "ubuntu", dhcp |-> TRUE, cidr |-> << >>,
                                          users |-> "keyed"]]
    /\ pc = << "tf_init" >>
    /\ semFree = 0
    /\ flock = [p \in LockPaths |-> {}]
    /\ ext = NoHost
    /\ results = << >>
    /\ mainPc = "gather"
    /\ exitCode = -1
    /\ maxRetries \in [{1} -> 0 .. MaxRetriesArg]
    /\ attempt = << 0 >>
    /\ tfOut = << "unset" >>
    /\ vmIp = << "None" >>
    /\ err = << "none" >>
    /\ cmds = << << >> >>
    /\ tenantKey = TRUE
    /\ hc = << HcIdle >>
    /\ trace = TRUE
    /\ endpoint = TRUE
    /\ fs = [p \in Paths |-> IF p = HostDir(<<"web">>) THEN "used" ELSE "absent"]
    /\ proc = NoProc

NextApply ==
    \/ \E t \in Tasks : TfInit(t)
    \/ \E t \in Tasks : TfValidate(t)
    \/ \E t \in Tasks : TfPlan(t)
    \/ \E t \in Tasks : TfApply(t)
    \/ \E t \in Tasks : TfOutput(t)
    \/ \E t \in Tasks : TfDestroy(t)
    \/ \E t \in Tasks : TfSleep(t)

SpecApply == InitApply /\ [][NextApply]_vars

\* Every external command and every sleep of the call ends: the call
\* takes its next step.
SpecApplyLive == SpecApply /\ WF_vars(NextApply)

\* ---------------------------------------- check_vm_health called alone
\* Largest timeout tried besides the one of provision_host, in units of
\* the ssh connect timeout.
MaxTimeoutUnits == 5

\* One call check_vm_health(vm_ip, ..., timeout, os_type) followed second
\* by second, for an ubuntu and for a nixos VM.
InitHealth ==
    /\ fcntl = TRUE
    /\ concurrency = 1
    /\ targets = {"infra"}
    /\ selected = << [name |-> <<"web">>, hypervisor |-> "proxmox",
                      boot_method |-> "iso"] >>
    /\ installs \in { [n \in HostNames |-> [os |-> o, dhcp |-> FALSE,
                                            cidr |-> << "192.0.2.10", "24" >>,
                                            users |-> "keyed"]] :
                        o \in {"ubuntu", "nixos"} }
    /\ pc = << "hc_loop" >>
    /\ semFree = 0
    /\ flock = [p \in LockPaths |-> {}]
    /\ ext = NoHost
    /\ results = << >>
    /\ mainPc = "gather"
    /\ exitCode = -1
    /\ maxRetries = << 0 >>
    /\ attempt = << 0 >>
    /\ tfOut = << "unset" >>
    /\ vmIp = << "192.0.2.10" >>
    /\ err = << "none" >>
    /\ cmds = << << >> >>
    /\ tenantKey = TRUE
    /\ hc \in { << [clock |-> "timed", ssh |-> FALSE, status |-> FALSE,
                    out |-> << >>, elapsed |-> 0, timeout |-> T] >> :
                 T \in {HealthTimeout}
                       \cup { k * SshConnectTimeout : k \in 0 .. MaxTimeoutUnits } }
    /\ trace = TRUE
    /\ endpoint = TRUE
    /\ fs = [p \in Paths |-> IF p = HostDir(<<"web">>) THEN "used" ELSE "absent"]
    /\ proc = NoProc

NextHealth ==
    \/ \E t \in Tasks : HcLoop(t)
    \/ \E t \in Tasks : HcSsh(t)
    \/ \E t \in Tasks : HcStatus(t)
    \/ \E t \in Tasks : HcSleep(t)

\* The probes and the sleep of the call end: the loop takes its next step.
SpecHealth ==
    InitHealth /\ [][NextHealth]_vars /\ WF_vars(NextHealth)

\* ======================================================== properties
\* The holders of the guarded section of provision_host for host name h:
\* tasks of this run and the task of the other engine process.
Inside(h) ==
    { RunTask(t) : t \in { u \in Tasks : pc[u] \in InLock /\ NameOf(u) = h } }
    \cup (IF ext = h THEN {ExtTask} ELSE {})

PipelineErrors ==
    {"ShellError", "RuntimeError: DHCP IP not found", "RenderError",
     "UnboundLocalError", "RuntimeError: Missing Proxmox API endpoint"}

\* Errors raised before the try: by the tenant key check, by filelock, by
\* ensure_clean_dir.
PreStageErrors ==
    {"CalledProcessError", "OSError: lock file", "OSError: build dir"}

IsLast(l, r) == l # << >> /\ l[Len(l)] = r

\* The run cannot go on: a task left through an exception (and main
\* aborts), or a flock() call is holding up the event loop.
RunHeldUp == \E u \in Tasks : pc[u] \in {"raised", "cancelled", "flock"}

\* C2: a failure of an infra command, of address resolution, of a render
\* step or of a playbook in host A's pipeline never leaves A's task as an
\* exception: the step that ends A's task appends A's failed HostResult and
\* changes nothing of any other task nor of main; main is aborted only by
\* an error that is not a pipeline failure; and once A has failed, the run
\* goes on to the summary with a result for every selected host, unless it
\* is held up by something else (an exception before the stages, a
\* blocking flock).
C2_FailureIsolated ==
    /\ [](\A t \in Tasks :
            /\ err[t] \in PipelineErrors => pc[t] \in {"caught", "done"}
            /\ pc[t] \in {"raised", "cancelled"} =>
                  \E u \in Tasks : pc[u] = "raised" /\ err[u] \in PreStageErrors)
    /\ [](mainPc = "aborted" =>
            \E u \in Tasks : pc[u] = "raised" /\ err[u] \in PreStageErrors)
    /\ [](mainPc = "summary" =>
            /\ Len(results) = Len(selected)
            /\ \A t \in Tasks : pc[t] = "done"
                  /\ \E i \in DOMAIN results :
                        results[i] = HostResult(NameOf(t), err[t]))
    /\ [][\A t \in Tasks :
            (pc[t] \in {"caught", "tf_exc"} /\ pc'[t] # pc[t]) =>
              /\ pc'[t] = "done" /\ err'[t] \in PipelineErrors
              /\ results' = Append(results, HostResult(NameOf(t), err'[t]))
              /\ \A u \in Tasks \ {t} : pc'[u] = pc[u] /\ err'[u] = err[u]
              /\ mainPc' = mainPc /\ exitCode' = exitCode]_vars
    /\ \A t \in 1 .. MaxHosts :
          (pc[t] = "done" /\ err[t] \in PipelineErrors)
             ~> (mainPc = "summary" \/ RunHeldUp)

\* C2 witness: the run reached the summary with the failed HostResult of
\* one host (its address was not resolved) and the OK of another.
C2_Witness ==
    /\ mainPc = "summary"
    /\ \E t, u \in Tasks :
          /\ err[t] = "RuntimeError: DHCP IP not found" /\ err[u] = "none"
          /\ results = << HostResult(NameOf(t), "RuntimeError: DHCP IP not found"),
                          HostResult(NameOf(u), "none") >>

\* C3 (as claimed): an error of a host's task before its stages begin
\* (tenant key check, lock file, workspace reset) becomes that host's
\* failed HostResult, and neither main nor another task is stopped by it.
C3_PreStageErrorIsHostResult ==
    \A t \in Tasks :
      err[t] \in PreStageErrors =>
        /\ pc[t] = "done"
        /\ \E i \in DOMAIN results : results[i] = HostResult(NameOf(t), err[t])
        /\ mainPc # "aborted"
        /\ \A u \in Tasks : pc[u] # "cancelled"

Attempts(t) == Count(cmds[t], "plan")
Destroys(t) == Count(cmds[t], "destroy")
TfEnded(t) == pc[t] \in {"tf_ret", "tf_exc"}

\* The seconds of the sleeps of log l, in order.
RECURSIVE SleepSecs(_)
SleepSecs(l) ==
    IF l = <<>> THEN <<>>
    ELSE (IF Head(l).cmd = "sleep" THEN <<Head(l).secs>> ELSE <<>>)
         \o SleepSecs(Tail(l))

\* The 1-based attempt that entry i of log l belongs to.
AttemptAt(l, i) == Count(SubSeq(l, 1, i), "plan")

\* The first attempt succeeded: the apply of attempt 1 exited 0.
FirstAttemptOk(l) ==
    \E i \in 1 .. Len(l) : l[i] = Cmd("apply", TRUE) /\ AttemptAt(l, i) = 1

\* C4: with max_retries = N there are at most N plan/apply attempts; when
\* the call has ended and every attempt failed, destroy ran exactly
\* (attempts - 1) times; when the first attempt succeeded, destroy never ran.
C4_AttemptsAndDestroys ==
    \A t \in Tasks :
      /\ Attempts(t) <= maxRetries[t]
      /\ Count(cmds[t], "apply") <= maxRetries[t]
      /\ (TfEnded(t) /\ Attempts(t) >= 1 /\ CountOk(cmds[t], "apply") = 0)
            => Destroys(t) = Attempts(t) - 1
      /\ FirstAttemptOk(cmds[t]) => Destroys(t) = 0

\* C4 witness: three attempts out of three failed and the failure was raised.
C4_Witness ==
    \E t \in Tasks :
      /\ pc[t] = "tf_exc" /\ maxRetries[t] = 3
      /\ Attempts(t) = 3 /\ Destroys(t) = 2

\* C5: a failed plan or apply of attempt k < max_retries is followed by
\* exactly one destroy, then a sleep of 15 * k seconds, then the plan of
\* attempt k + 1, whatever the destroy's exit status; the call does not end
\* in between.  With max_retries = 3, two failed attempts and a successful
\* third give 2 destroys, sleeps of 15 s and 30 s, and a normal return.
C5_DestroyThenBackoff ==
    \A t \in Tasks :
      LET l == cmds[t]
          n == Len(l)
      IN  /\ \A i \in 1 .. n :
                (l[i].cmd \in {"plan", "apply"} /\ ~l[i].ok
                   /\ AttemptAt(l, i) < maxRetries[t])
                => /\ n = i => pc[t] = "tf_destroy"
                   /\ n >= i + 1 => l[i + 1].cmd = "destroy"
                   /\ n = i + 1 => pc[t] = "tf_sleep"
                   /\ n >= i + 2 => l[i + 2] = Sleep(15 * AttemptAt(l, i))
                   /\ n = i + 2 => pc[t] = "tf_plan"
                   /\ n >= i + 3 => l[i + 3].cmd = "plan"
          /\ (maxRetries[t] = 3 /\ pc[t] = "tf_ret" /\ Attempts(t) = 3)
                => /\ Destroys(t) = 2
                   /\ SleepSecs(l) = << 15, 30 >>
                   /\ CountOk(l, "apply") = 1

\* C5 witness: attempts 1 and 2 failed, a destroy failed too, attempt 3
\* succeeded and the call returned.
C5_Witness ==
    \E t \in Tasks :
      /\ maxRetries[t] = 3 /\ pc[t] = "tf_ret" /\ Attempts(t) = 3
      /\ CountFailed(cmds[t], "destroy") >= 1
      /\ SleepSecs(cmds[t]) = << 15, 30 >>

\* C6 (as claimed): for every max_retries the call returns normally only
\* after exactly one apply has succeeded, and that apply is the last plan,
\* apply or destroy command of the call.
C6_ReturnOnlyAfterOneApply ==
    \A t \in Tasks :
      pc[t] = "tf_ret" =>
        /\ CountOk(cmds[t], "apply") = 1
        /\ \A i \in 1 .. Len(cmds[t]) :
              cmds[t][i] = Cmd("apply", TRUE) =>
                \A j \in i + 1 .. Len(cmds[t]) :
                  cmds[t][j].cmd \notin {"plan", "apply", "destroy"}

\* C7: init is the first command and validate the second, each run once;
\* any further command comes only after both exited 0; a failed init or
\* validate ends the call with the failure raised, with no plan, apply,
\* destroy or sleep.
C7_InitValidateOnce ==
    \A t \in Tasks :
      LET l == cmds[t]
          n == Len(l)
      IN  /\ Count(l, "init") <= 1 /\ Count(l, "validate") <= 1
          /\ n >= 1 => l[1].cmd = "init"
          /\ n >= 2 => l[1].ok /\ l[2].cmd = "validate"
          /\ n >= 3 => l[2].ok
          /\ (n >= 1 /\ ~l[n].ok /\ l[n].cmd \in {"init", "validate"})
                => pc[t] = "tf_exc"
          /\ TfEnded(t) => Count(l, "init") = 1
          /\ (TfEnded(t) /\ l[1].ok) => Count(l, "validate") = 1

\* C7 witness: validate failed after a successful init and the call ended
\* with two commands run.
C7_Witness ==
    \E t \in Tasks :
      /\ pc[t] = "tf_exc"
      /\ cmds[t] = << Cmd("init", TRUE), Cmd("validate", FALSE) >>

\* Commands and probes that follow address resolution.
AfterAddress ==
    {"check_vm_health", "pxe_server", "ubuntu_install", "nixos_anywhere",
     "nixos_install", "post_config_common"}

\* C8: for a proxmox VM with dhcp whose infra stage ran, an output map
\* without a vm_ip value, or with the placeholder "dhcp-pending", makes
\* provision_host fail with the address resolution error; the host's
\* HostResult is that failure, and no readiness probe, playbook or
\* nixos-anywhere deploy is run for it.
C8_NoAddressFailsClosed ==
    /\ [][\A t \in Tasks :
            (pc[t] = "tf_ret" /\ pc'[t] # "tf_ret" /\ installs[NameOf(t)].dhcp
               /\ tfOut[t] \in {"empty", "no_vm_ip", "null", "dhcp-pending"})
            => pc'[t] = "caught" /\ err'[t] = "RuntimeError: DHCP IP not found"]_vars
    /\ [](\A t \in Tasks :
            err[t] = "RuntimeError: DHCP IP not found" =>
              /\ pc[t] \in {"caught", "done"}
              /\ \A i \in DOMAIN cmds[t] : cmds[t][i].cmd \notin AfterAddress
              /\ hc[t] = HcIdle
              /\ pc[t] = "done" =>
                    results = << HostResult(NameOf(t), "RuntimeError: DHCP IP not found") >>)
    /\ [][\A t \in Tasks :
            (pc[t] = "caught" /\ err[t] = "RuntimeError: DHCP IP not found"
               /\ pc'[t] # "caught")
            => pc'[t] = "done" /\ err'[t] = err[t] /\ cmds' = cmds /\ hc' = hc]_vars

\* C8 witness: terraform applied at the first attempt, its output carried
\* the placeholder, and the host's failure is being returned.
C8_Witness ==
    \E t \in Tasks :
      /\ pc[t] = "caught" /\ err[t] = "RuntimeError: DHCP IP not found"
      /\ tfOut[t] = "dhcp-pending"
      /\ selected[t].hypervisor = "proxmox" /\ installs[NameOf(t)].dhcp
      /\ IsLast(cmds[t], Cmd("output", TRUE))

\* C9: once provision_host has finished for a task (a result returned, an
\* exception raised out of the guarded block, a cancellation), the task
\* holds no flock.
C9_LockReleasedOnExit ==
    \A t \in Tasks :
      pc[t] \in {"done", "raised", "cancelled"} =>
        \A p \in LockPaths : RunTask(t) \notin flock[p]

\* C9 witness: with fcntl, a task left the guarded block through the
\* exception of ensure_clean_dir, and a second task for the same host
\* now holds the lock.
C9_Witness ==
    /\ fcntl
    /\ \E t, u \in Tasks :
          /\ pc[t] = "raised" /\ err[t] = "OSError: build dir"
          /\ NameOf(u) = NameOf(t)
          /\ pc[u] \in InLock /\ flock[LockPath(NameOf(u))] = {RunTask(u)}

\* C10: the number of tasks inside provision_host never exceeds
\* args.concurrency, and the permits taken and free add up to it.
C10_AtMostConcurrency ==
    /\ Cardinality({ t \in Tasks : pc[t] \in UnderSem }) <= concurrency
    /\ semFree >= 0
    /\ semFree + Cardinality({ t \in Tasks : pc[t] \in UnderSem }) = concurrency

\* C10 witness: with a width of 1, one task is inside provision_host and
\* another waits for the semaphore.
C10_Witness ==
    /\ concurrency = 1 /\ semFree = 0
    /\ \E t, u \in Tasks : pc[t] \in UnderSem /\ pc[u] = "sem"

\* C11 (as claimed): while a task waits in flock() for its host's lock,
\* held by another task of the run or by another engine process, every
\* task of another host that has a step to take (it is not waiting for the
\* semaphore and has not ended) can take it.
C11_LockWaitBlocksNobody ==
    \A t, u \in Tasks :
      (/\ pc[t] = "flock" /\ mainPc = "gather"
       /\ NameOf(u) # NameOf(t)
       /\ pc[u] \in Yields \ {"sem", "done", "raised", "cancelled"})
      => ENABLED TaskStep(u)

\* The host a holder of a flock is provisioning.
HostOf(holder) == IF holder = ExtTask THEN ext ELSE NameOf(holder[2])

\* C12 (as claimed): a task never waits in flock() for a lock held by a
\* task for a host of another name.
C12_DistinctHostsNeverContend ==
    \A t \in Tasks :
      pc[t] = "flock" =>
        \A holder \in flock[LockPath(NameOf(t))] : HostOf(holder) = NameOf(t)

\* C13: for a nixos host with os selected, a failed nixos-anywhere deploy
\* (or a missing flake) leaves the host without an error and is followed by
\* the fallback playbook; when the fallback exits 0 the pipeline goes on to
\* post (or returns OK when post is not selected); when the fallback fails
\* too, nothing more is run and the host's result is that failure.
C13_FallbackPolicy ==
    \A t \in Tasks :
      LET l == cmds[t]
          n == Len(l)
      IN  /\ pc[t] = "nix_fallback" =>
                /\ err[t] = "none" /\ installs[NameOf(t)].os = "nixos"
                /\ "os" \in targets
                /\ Count(l, "nixos_install") = 0
          /\ \A i \in 1 .. n :
                /\ l[i] = Cmd("nixos_anywhere", FALSE) =>
                      /\ i = n => pc[t] = "nix_fallback"
                      /\ i < n => l[i + 1].cmd = "nixos_install"
                /\ l[i] = Cmd("nixos_install", TRUE) =>
                      /\ i = n => /\ pc[t] \in {AfterOs(t), "done"}
                                  /\ err[t] = "none"
                      /\ i < n => /\ "post" \in targets
                                  /\ l[i + 1].cmd = "post_config_common"
                      /\ (pc[t] = "done" /\ Count(l, "post_config_common")
                            = CountOk(l, "post_config_common"))
                         => results = << HostResult(NameOf(t), "none") >>
                /\ l[i] = Cmd("nixos_install", FALSE) =>
                      /\ i = n /\ pc[t] \in {"caught", "done"}
                      /\ err[t] = "ShellError"
                      /\ pc[t] = "done" =>
                            results = << HostResult(NameOf(t), "ShellError") >>

\* C13 witness: nixos-anywhere failed, the fallback playbook and the post
\* playbook exited 0, and the host is reported OK.
C13_Witness ==
    \E t \in Tasks :
      /\ pc[t] = "done" /\ results = << HostResult(NameOf(t), "none") >>
      /\ Len(cmds[t]) >= 3
      /\ SubSeq(cmds[t], Len(cmds[t]) - 2, Len(cmds[t]))
           = << Cmd("nixos_anywhere", FALSE), Cmd("nixos_install", TRUE),
                Cmd("post_config_common", TRUE) >>

\* C14 (as claimed): every nixos host, on proxmox or bare metal, that
\* reaches the os stage with os selected leaves it through a call of the
\* nixos-anywhere deploy (which succeeds, or fails and hands over to the
\* fallback), and the fallback playbook never runs after a deploy that
\* succeeded.
C14_PrimaryFirst ==
    /\ [][\A t \in Tasks :
            (pc[t] = "os" /\ installs[NameOf(t)].os = "nixos" /\ pc'[t] # "os")
            => \/ pc'[t] = "nix_fallback"
               \/ IsLast(cmds'[t], Cmd("nixos_anywhere", TRUE))]_vars
    /\ [](\A t \in Tasks : \A i \in DOMAIN cmds[t] :
            cmds[t][i].cmd = "nixos_install" =>
              \A j \in 1 .. i - 1 : cmds[t][j] # Cmd("nixos_anywhere", TRUE))

\* The host's log has a check_vm_health call that returned False.
NotReady(t) == \E i \in DOMAIN cmds[t] : cmds[t][i] = Cmd("check_vm_health", FALSE)

\* The playbooks and deploys of the configuration stages.
ConfigCmds ==
    {"pxe_server", "ubuntu_install", "nixos_anywhere", "nixos_install",
     "post_config_common"}

\* C15: when check_vm_health returns False the pipeline goes on to render
\* the inventory with no error recorded; a host that was not ready fails
\* only through a render error or a failed playbook; and when it ends OK,
\* every selected configuration stage that applies to it has run.
C15_NotReadyOnlyWarns ==
    /\ [][\A t \in Tasks :
            (cmds'[t] # cmds[t] /\ IsLast(cmds'[t], Cmd("check_vm_health", FALSE)))
            => pc'[t] = "ansible" /\ err'[t] = "none"]_vars
    /\ [](\A t \in Tasks :
            LET l == cmds[t] IN
            NotReady(t) =>
              /\ err[t] # "none" =>
                    \/ err[t] = "RenderError"
                    \/ /\ err[t] = "ShellError"
                       /\ l[Len(l)].cmd \in ConfigCmds /\ ~l[Len(l)].ok
              /\ (pc[t] = "done" /\ err[t] = "none") =>
                    /\ results = << HostResult(NameOf(t), "none") >>
                    /\ ("pxe" \in targets /\ selected[t].boot_method = "pxe")
                          => CountOk(l, "pxe_server") = 1
                    /\ "os" \in targets =>
                          CountOk(l, "ubuntu_install") + CountOk(l, "nixos_anywhere")
                            + CountOk(l, "nixos_install") = 1
                    /\ "post" \in targets => CountOk(l, "post_config_common") = 1)

\* C15 witness: the probe timed out, the os and post playbooks then ran
\* and exited 0, and the host is reported OK.
C15_Witness ==
    \E t \in Tasks :
      /\ NotReady(t) /\ pc[t] = "done"
      /\ results = << HostResult(NameOf(t), "none") >>
      /\ CountOk(cmds[t], "ubuntu_install") = 1
      /\ IsLast(cmds[t], Cmd("post_config_common", TRUE))

\* Task t's step is the return of check_vm_health with the given value.
HcReturns(t, healthy) ==
    cmds'[t] # cmds[t] /\ IsLast(cmds'[t], Cmd("check_vm_health", healthy))

\* C16: check_vm_health returns False only from the test of its loop, when
\* at least `timeout` seconds have elapsed since the call started; it
\* returns True only in the step of a poll that succeeded, so a check that
\* fails on every poll makes it return False; and the call does return.
C16_FalseOnlyAfterTimeout ==
    /\ [][\A t \in Tasks :
            HcReturns(t, FALSE) =>
              /\ pc[t] = "hc_loop"
              /\ hc[t].elapsed >= hc[t].timeout]_vars
    /\ [][\A t \in Tasks :
            HcReturns(t, TRUE) =>
              \/ pc[t] = "hc_ssh" /\ installs[NameOf(t)].os = "nixos"
              \/ pc[t] = "hc_status"]_vars
    /\ [][\A t \in Tasks :
            (pc[t] \in {"hc_loop", "hc_ssh", "hc_status", "hc_sleep"}
               /\ pc'[t] = "ansible")
            => HcReturns(t, TRUE) \/ HcReturns(t, FALSE)]_vars
    /\ <>(\A t \in Tasks : pc[t] = "ansible")

\* C16 witness: with the timeout of 300 s every poll failed, and the call
\* returned False when exactly 300 s had elapsed.
C16_Witness ==
    \E t \in Tasks :
      /\ pc[t] = "ansible" /\ cmds[t] = << Cmd("check_vm_health", FALSE) >>
      /\ hc[t].ssh /\ ~hc[t].status
      /\ hc[t].timeout = HealthTimeout /\ hc[t].elapsed = HealthTimeout

\* The stage a command belongs to: 1 infra, 2 pxe, 3 os, 4 post; 0 for
\* what belongs to no stage (ssh-keygen, sleeps, the readiness probe).
StageOf(c) ==
    CASE c \in {"init", "validate", "plan", "apply", "output", "destroy"} -> 1
      [] c = "pxe_server" -> 2
      [] c \in {"ubuntu_install", "nixos_anywhere", "nixos_install"} -> 3
      [] c = "post_config_common" -> 4
      [] OTHER -> 0

StageName(k) == << "infra", "pxe", "os", "post" >>[k]

\* C17: in a host's log the commands of the stages appear in the order
\* infra, pxe, os, post; only selected stages issue commands; and when a
\* command of a stage is issued, every earlier selected stage that applies
\* to the host has completed: terraform applied and its outputs read, the
\* pxe playbook exited 0, an os install exited 0.
C17_StagesInOrder ==
    \A t \in Tasks :
      LET l == cmds[t]
          v == selected[t]
      IN  \A j \in DOMAIN l :
            LET s == StageOf(l[j].cmd)
                before == SubSeq(l, 1, j - 1)
            IN  s > 0 =>
                  /\ StageName(s) \in targets
                  /\ \A i \in 1 .. j - 1 : StageOf(l[i].cmd) <= s
                  /\ (s >= 2 /\ "infra" \in targets /\ v.hypervisor = "proxmox")
                        => /\ CountOk(before, "apply") = 1
                           /\ Count(before, "output") = 1
                  /\ (s >= 3 /\ "pxe" \in targets
                         /\ (v.hypervisor = "baremetal" \/ v.boot_method = "pxe"))
                        => CountOk(before, "pxe_server") = 1
                  /\ (s = 4 /\ "os" \in targets)
                        => CountOk(before, "ubuntu_install")
                             + CountOk(before, "nixos_anywhere")
                             + CountOk(before, "nixos_install") = 1

\* C17 witness: a proxmox VM booted by pxe went through all four stages.
C17_Witness ==
    \E t \in Tasks :
      /\ pc[t] = "done" /\ err[t] = "none" /\ targets = Stages
      /\ CountOk(cmds[t], "apply") = 1 /\ CountOk(cmds[t], "pxe_server") = 1
      /\ CountOk(cmds[t], "ubuntu_install") = 1
      /\ IsLast(cmds[t], Cmd("post_config_common", TRUE))

\* Entry i of task t's log is a fatal failure: a failed init or validate,
\* a failed plan or apply of the last attempt, a failed playbook.
FatalAt(t, i) ==
    LET e == cmds[t][i] IN
    /\ ~e.ok
    /\ \/ e.cmd \in {"init", "validate"}
       \/ e.cmd \in {"plan", "apply"} /\ AttemptAt(cmds[t], i) = maxRetries[t]
       \/ e.cmd \in {"pxe_server", "ubuntu_install", "nixos_install",
                     "post_config_common"}

\* C18: a fatal failure is the last command of the host's pipeline, the
\* task goes from it straight to the return of the failure, and the host's
\* HostResult is that failure; the same holds when the address is not
\* resolved, after which the output command is the last one.
C18_FatalFailureEndsPipeline ==
    /\ [](\A t \in Tasks :
            /\ \A i \in DOMAIN cmds[t] :
                  FatalAt(t, i) =>
                    /\ i = Len(cmds[t])
                    /\ pc[t] \in {"tf_exc", "caught", "done"}
                    /\ pc[t] = "caught" => err[t] = "ShellError"
                    /\ pc[t] = "done" =>
                          results = << HostResult(NameOf(t), "ShellError") >>
            /\ err[t] = "RuntimeError: DHCP IP not found" =>
                  /\ IsLast(cmds[t], Cmd("output", TRUE))
                        \/ IsLast(cmds[t], Cmd("output", FALSE))
                  /\ pc[t] \in {"caught", "done"}
                  /\ pc[t] = "done" => results = << HostResult(NameOf(t), err[t]) >>)
    /\ [][\A t \in Tasks :
            (pc[t] \in {"tf_exc", "caught"} /\ pc'[t] # pc[t])
            => /\ pc'[t] = "done" /\ cmds' = cmds
               /\ err'[t] # "none" /\ Failures' # {}]_vars

\* C18 witness: the pxe playbook failed with os and post selected, nothing
\* ran after it and the host is reported failed.
C18_Witness ==
    \E t \in Tasks :
      /\ {"os", "post"} \subseteq targets
      /\ pc[t] = "done" /\ IsLast(cmds[t], Cmd("pxe_server", FALSE))
      /\ results = << HostResult(NameOf(t), "ShellError") >>

\* C19 (as claimed): when the engine process has exited, its exit status
\* is non-zero if and only if the HostResult of some selected host is a
\* failure.
C19_ExitStatusIffFailure ==
    mainPc \in {"summary", "aborted"} =>
      (exitCode # 0 <=> Failures # {})

\* Every result so far is an OK.
AllOk == \A i \in DOMAIN results : results[i].err = "none"

\* C20 (as claimed): in a run of hosts with distinct names, with no other
\* engine process about, in which no step of any host ever fails, main
\* eventually prints a summary with an OK for every host and exits 0.
C20_AllSucceedTerminates ==
    ( /\ \A t, u \in 1 .. MaxHosts : t # u => NameOf(t) # NameOf(u)
      /\ [](ext = NoHost)
      /\ [](\A t \in 1 .. MaxHosts : err[t] = "none") )
    => <>( /\ mainPc = "summary" /\ exitCode = 0
           /\ Len(results) = Len(selected) /\ AllOk )

\* Task t's host has a configuration error: no install-config entry, or
\* it is a proxmox VM and no infra endpoint is configured.
ConfigError(t) ==
    \/ installs[NameOf(t)] = NoInstall
    \/ selected[t].hypervisor = "proxmox" /\ ~endpoint

\* C21 (as claimed): for a host with a configuration error no external
\* process is ever run, and when its task has ended it has ended with a
\* failed HostResult.
C21_ConfigErrorAbortsFirst ==
    \A t \in Tasks :
      ConfigError(t) =>
        /\ cmds[t] = << >>
        /\ pc[t] \in {"done", "raised", "cancelled"} =>
              /\ pc[t] = "done" /\ err[t] # "none"
              /\ results = << HostResult(NameOf(t), err[t]) >>

\* The workspace of host n changes in this step.
WorkspaceChanges(n) == fs'[HostDir(n)] # fs[HostDir(n)]

\* C22 (as claimed): when a task has reset its host's workspace and has
\* not yet rendered into it the workspace is an empty directory, the reset
\* comes after the lock is taken and before the first step of the
\* pipeline, and a host's workspace changes only in a step of a task that
\* holds that host's lock.
C22_CleanSlateUnderLock ==
    /\ [](\A t \in Tasks : pc[t] = "try" => fs[HostDir(NameOf(t))] = "empty")
    /\ [][\A t \in Tasks :
            pc'[t] = "try" /\ pc[t] # "try" => pc[t] = "clean"]_vars
    /\ [][\A t \in Tasks :
            pc[t] = "clean" /\ pc'[t] \notin {"clean", "raised", "cancelled"}
            => pc'[t] = "try"]_vars
    /\ [][\A t \in Tasks :
            WorkspaceChanges(NameOf(t)) =>
              \E holder \in flock[LockPath(NameOf(t))] :
                 HostOf(holder) = NameOf(t)]_vars

\* C23 (as claimed): a workspace reset never removes or replaces a lock
\* file (so no lock path of a host is a workspace directory that gets
\* reset), and while a lock is held its lock file is in place.
C23_LockOutsideWorkspaces ==
    /\ [][\A p \in LockPaths : fs[p] = "file" => fs'[p] = "file"]_vars
    /\ [](\A p \in LockPaths : flock[p] # {} => fs[p] = "file")

\* C24: a failed `terraform output` comes directly after the one apply
\* that succeeded, it is the last command of the call (no destroy, no
\* sleep, no further attempt), and the call returns the empty map.
C24_OutputFailureGivesEmptyMap ==
    \A t \in Tasks :
      LET l == cmds[t] IN
      \A i \in DOMAIN l :
        l[i] = Cmd("output", FALSE) =>
          /\ i = Len(l) /\ i > 1 /\ l[i - 1] = Cmd("apply", TRUE)
          /\ CountOk(l, "apply") = 1 /\ Count(l, "output") = 1
          /\ pc[t] = "tf_ret" /\ tfOut[t] = "empty"

\* C24 witness: the first attempt failed, the second applied, the output
\* call failed and the call returned {}.
C24_Witness ==
    \E t \in Tasks :
      /\ pc[t] = "tf_ret" /\ tfOut[t] = "empty"
      /\ IsLast(cmds[t], Cmd("output", FALSE))
      /\ Attempts(t) = 2 /\ Destroys(t) = 1

\* Task t's step is a plan or apply that failed.
AttemptFails(t) ==
    /\ cmds'[t] # cmds[t]
    /\ cmds'[t][Len(cmds'[t])].cmd \in {"plan", "apply"}
    /\ ~cmds'[t][Len(cmds'[t])].ok

\* C25: where terraform_apply goes after a failed attempt is the same for
\* every class the failure message may fall in: the step of the failure
\* leads to the destroy exactly when attempts remain and to the raise
\* otherwise, whichever class is taken; the backoff is 15 s times the
\* number of the attempt; and a call that ended after only failed
\* attempts has run each of them and has raised.
C25_ClassNeverSteers ==
    /\ [](\A t \in Tasks : \A k1, k2 \in MessageClasses :
            AfterShellError(t, k1) = AfterShellError(t, k2))
    /\ [][\A t \in Tasks :
            AttemptFails(t) =>
              \A k \in MessageClasses :
                /\ pc'[t] = AfterShellError(t, k)
                /\ pc'[t] = (IF attempt[t] + 1 < maxRetries[t]
                             THEN "tf_destroy" ELSE "tf_exc")]_vars
    /\ [][\A t \in Tasks :
            pc[t] = "tf_sleep" /\ pc'[t] # "tf_sleep" =>
              IsLast(cmds'[t], Sleep(BackoffUnit * (attempt[t] + 1)))]_vars
    /\ [](\A t \in Tasks :
            (TfEnded(t) /\ Attempts(t) >= 1 /\ CountOk(cmds[t], "apply") = 0)
            => /\ pc[t] = "tf_exc" /\ Attempts(t) = maxRetries[t]
               /\ SleepSecs(cmds[t])
                    = [i \in 1 .. maxRetries[t] - 1 |-> BackoffUnit * i])

\* C25 witness: two plans and an apply failed in a call with three
\* attempts, their messages fell in the last class, and the call raised
\* after two destroys and waits of 15 s and 30 s.
C25_Witness ==
    \E t \in Tasks :
      /\ pc[t] = "tf_exc" /\ maxRetries[t] = 3
      /\ CountFailed(cmds[t], "plan") = 2 /\ CountFailed(cmds[t], "apply") = 1
      /\ SleepSecs(cmds[t]) = << 15, 30 >>
      /\ Classify(ErrorMsg("plan")) = "other"
      /\ Classify(ErrorMsg("apply")) = "other"

\* The commands of the infra tool.
InfraCmds == {"init", "validate", "plan", "apply", "output", "destroy"}

\* C26: the pxe playbook is in a host's log only if pxe is selected and
\* the host is bare-metal or boots by PXE; commands of the infra tool only
\* if infra is selected and the host is a proxmox VM; an os install or
\* deploy only if os is selected; the post playbook only if post is
\* selected.
C26_StageGates ==
    \A t \in Tasks :
      \A i \in DOMAIN cmds[t] :
        LET c == cmds[t][i].cmd
            v == selected[t]
        IN  /\ c = "pxe_server" =>
                  /\ "pxe" \in targets
                  /\ v.hypervisor = "baremetal" \/ v.boot_method = "pxe"
            /\ c \in InfraCmds =>
                  "infra" \in targets /\ v.hypervisor = "proxmox"
            /\ c \in {"ubuntu_install", "nixos_anywhere", "nixos_install"} =>
                  "os" \in targets
            /\ c = "post_config_common" => "post" \in targets

\* C26 witness: a bare-metal host booted from an iso, with all four
\* stages selected, ended OK with the pxe, os and post playbooks run and
\* no command of the infra tool.
C26_Witness ==
    \E t \in Tasks :
      /\ selected[t].hypervisor = "baremetal" /\ selected[t].boot_method = "iso"
      /\ targets = Stages /\ pc[t] = "done" /\ err[t] = "none"
      /\ cmds[t] = << Cmd("pxe_server", TRUE), Cmd("ubuntu_install", TRUE),
                       Cmd("post_config_common", TRUE) >>

\* vm_ip_for_tasks holds an address.
Resolved(t) == vmIp[t] \notin {"unbound", "None", ""}

\* Positions inside check_vm_health.
InProbe == {"hc_loop", "hc_ssh", "hc_status", "hc_sleep"}

\* Positions of the ansible part of provision_host and after it.
PastProbe == {"ansible", "pxe", "os", "nix_fallback", "post", "ret"}

\* C27: the 30 s wait is in a host's log only if terraform applied for it
\* and an address was resolved, and then once, directly after the output
\* command; the probe starts only directly after that wait and returns
\* once; no configuration command comes before either; and a host whose
\* infra stage ran and whose address was resolved has waited and probed
\* by the time it renders its inventory.  A host whose infra stage did not
\* run never waits or probes.
C27_GraceThenProbe ==
    \A t \in Tasks :
      LET l == cmds[t]
          waits == Len(SelectSeq(SleepSecs(l), LAMBDA x : x = BootGrace))
      IN  /\ \A i \in DOMAIN l :
                /\ l[i] = Sleep(BootGrace) =>
                      /\ i > 1 /\ l[i - 1].cmd = "output"
                      /\ CountOk(SubSeq(l, 1, i), "apply") = 1
                      /\ Resolved(t)
                      /\ "infra" \in targets /\ selected[t].hypervisor = "proxmox"
                /\ l[i].cmd = "check_vm_health" =>
                      i > 1 /\ l[i - 1] = Sleep(BootGrace)
                /\ l[i].cmd \in {"sleep", "check_vm_health"} =>
                      \A j \in 1 .. i - 1 : l[j].cmd \notin ConfigCmds
          /\ waits <= 1 /\ Count(l, "check_vm_health") <= 1
          /\ pc[t] \in InProbe =>
                IsLast(l, Sleep(BootGrace)) /\ hc[t].clock # "idle"
          /\ pc[t] \notin InProbe => hc[t].clock = "idle"
          /\ (pc[t] \in PastProbe /\ Resolved(t) /\ CountOk(l, "apply") = 1) =>
                waits = 1 /\ Count(l, "check_vm_health") = 1
          /\ (CountOk(l, "apply") = 0 \/ ~Resolved(t)) =>
                /\ waits = 0 /\ Count(l, "check_vm_health") = 0
                /\ hc[t] = HcIdle

\* C27 witness: a VM with a static address whose terraform applied
\* waited 30 s, was probed and found ready, and then had its os playbook
\* run.
C27_Witness ==
    \E t \in Tasks :
      /\ ~installs[NameOf(t)].dhcp /\ Resolved(t)
      /\ Len(cmds[t]) >= 4
      /\ SubSeq(cmds[t], Len(cmds[t]) - 3, Len(cmds[t]))
           = << Cmd("output", TRUE), Sleep(BootGrace),
                Cmd("check_vm_health", TRUE), Cmd("ubuntu_install", TRUE) >>

\* The words "done" or "disabled" are in the output out of the status check.
Completed(out) ==
    \E i \in 1 .. Len(out) : out[i] = "done" \/ out[i] = "disabled"

\* C28: after a successful liveness check, a nixos host is ready at once
\* and its installation status is never asked; any other host is ready only
\* in the step of a status check whose output has "done" or "disabled",
\* is ready in every such step, and after any other output the call sleeps
\* and goes back to the test of its loop.
C28_ReadyByOsKind ==
    /\ [][\A t \in Tasks :
            HcReturns(t, TRUE) =>
              IF installs[NameOf(t)].os = "nixos"
              THEN pc[t] = "hc_ssh" /\ hc'[t].ssh /\ ~hc'[t].status
              ELSE pc[t] = "hc_status" /\ hc'[t].status
                   /\ Completed(hc'[t].out)]_vars
    /\ [][\A t \in Tasks :
            pc[t] = "hc_ssh" /\ pc'[t] = "hc_status"
            => installs[NameOf(t)].os # "nixos" /\ cmds' = cmds]_vars
    /\ [][\A t \in Tasks :
            pc[t] = "hc_status" /\ pc'[t] # "hc_status" =>
              IF Completed(hc'[t].out)
              THEN HcReturns(t, TRUE) /\ pc'[t] = "ansible"
              ELSE pc'[t] = "hc_sleep" /\ cmds' = cmds]_vars
    /\ [][\A t \in Tasks :
            pc[t] = "hc_sleep" /\ pc'[t] # "hc_sleep"
            => pc'[t] = "hc_loop" /\ cmds' = cmds
               /\ hc'[t].elapsed = hc[t].elapsed + PollInterval]_vars
    /\ [](\A t \in Tasks :
            installs[NameOf(t)].os = "nixos"
            => pc[t] # "hc_status" /\ ~hc[t].status)

\* C28 witness: an ubuntu host was declared ready by a status check that
\* printed "disabled", after at least one poll that did not succeed.
C28_Witness ==
    \E t \in Tasks :
      /\ installs[NameOf(t)].os = "ubuntu"
      /\ pc[t] = "ansible" /\ cmds[t] = << Cmd("check_vm_health", TRUE) >>
      /\ hc[t].out = << "status:", "disabled" >>
      /\ hc[t].elapsed > 2 * SshConnectTimeout

\* C29: no step of the engine changes a host's VMSpec or OSInstallConfig.
C29_HostSpecReadOnly ==
    [][installs' = installs /\ selected' = selected]_vars

\* The result of task t's host is success.
Succeeded(t) == results = << HostResult(NameOf(t), "none") >>

\* The log has a failed run of command c.
FailedIn(l, c) == CountFailed(l, c) > 0

\* The playbooks of the stages pxe, os and post.
Playbooks == {"pxe_server", "ubuntu_install", "nixos_install", "post_config_common"}

\* The address of a dhcp host was not in the outputs of the apply.
Unresolved(t) ==
    /\ installs[NameOf(t)].dhcp
    /\ CountOk(cmds[t], "apply") = 1
    /\ ~Resolved(t)

\* What is an error of the host without any command having failed: no
\* install configuration, no endpoint for a proxmox host, an error while
\* the artifacts are rendered, and the unbound address of a nixos host
\* that is not a proxmox VM when the os stage is selected.
EngineError(t) ==
    \/ installs[NameOf(t)] = NoInstall
    \/ selected[t].hypervisor = "proxmox" /\ ~endpoint
    \/ err[t] = "RenderError"
    \/ /\ selected[t].hypervisor # "proxmox"
       /\ installs[NameOf(t)].os = "nixos" /\ "os" \in targets

\* A step of task t's pipeline raised out of it: init or validate failed,
\* plan or apply failed on each of the two attempts, a playbook failed,
\* the dhcp address was not resolved, or the engine itself failed.
Raised(t) ==
    \/ FailedIn(cmds[t], "init") \/ FailedIn(cmds[t], "validate")
    \/ CountFailed(cmds[t], "plan") + CountFailed(cmds[t], "apply")
         = ProvisionMaxRetries
    \/ \E b \in Playbooks : FailedIn(cmds[t], b)
    \/ Unresolved(t)
    \/ EngineError(t)

\* C30 (amended): a finished host's result is success exactly when no
\* step raised out of its pipeline; a readiness timeout, a failed primary
\* deploy, a failed plan or apply that is retried, a failed destroy and a
\* failed output command do not raise.
C30_SuccessIffNothingRaised ==
    \A t \in Tasks :
      pc[t] = "done" =>
        /\ Len(results) = 1 /\ results[1].name = NameOf(t)
        /\ Succeeded(t) <=> ~Raised(t)
        /\ CountFailed(cmds[t], "plan") + CountFailed(cmds[t], "apply")
             <= ProvisionMaxRetries

\* C30 witness: a static nixos VM whose first attempt failed and was
\* retried, whose destroy and output commands failed, whose readiness
\* probe timed out and whose primary deploy failed, ends in success after
\* the fallback playbook.
C30_Witness ==
    \E t \in Tasks :
      /\ pc[t] = "done" /\ Succeeded(t)
      /\ CountFailed(cmds[t], "plan") + CountFailed(cmds[t], "apply") = 1
      /\ FailedIn(cmds[t], "destroy") /\ FailedIn(cmds[t], "output")
      /\ NotReady(t)
      /\ FailedIn(cmds[t], "nixos_anywhere")
      /\ CountOk(cmds[t], "nixos_install") = 1

\* The external commands whose failure the statement lets pass: the
\* readiness probe and the primary deploy.
Forgiven == {"check_vm_health", "nixos_anywhere"}

\* C30 (as stated): a finished host's result is success exactly when no
\* external command other than the readiness probe and the primary deploy
\* failed, the address was resolved and the engine itself did not fail.
C30_EveryOtherFailureFatal ==
    \A t \in Tasks :
      pc[t] = "done" =>
        (Succeeded(t) <=>
           ~ \/ \E i \in DOMAIN cmds[t] :
                   ~cmds[t][i].ok /\ cmds[t][i].cmd \notin Forgiven
             \/ Unresolved(t)
             \/ EngineError(t))

\* Task t has passed the test of the tenant's private key (line 683).
PastKey(t) == pc[t] \notin {"pending", "sem", "key"}

\* C31: in a run that starts without the tenant's key pair, the key file
\* a task finds at line 683 is not one that the task of another host has
\* written: a task that is past the test has run ssh-keygen itself, or no
\* task of another host has.
C31_NoFileSharedAcrossHosts ==
    \A t, u \in Tasks :
      (NameOf(t) # NameOf(u) /\ PastKey(t) /\ CountOk(cmds[u], "ssh-keygen") > 0)
      => Count(cmds[t], "ssh-keygen") > 0

\* The run_cmd call has ended with a child that was started.
CallEnded == proc.pc \in {"returned", "raised"} /\ proc.found

\* C32: a run_cmd call whose child was started returns normally exactly
\* when the child's exit code is 0, and for any other exit code it raises
\* a ShellError whose message has the exit code and the command line.
C32_ReturnsIffExitZero ==
    CallEnded =>
      /\ proc.pc = "returned" <=> proc.rc = 0
      /\ proc.rc # 0 =>
           proc.exc = [type |-> "ShellError",
                       msg |-> << "Command failed (", proc.rc, "): " >>
                               \o Join(proc.cmd)]

\* C33: the declarative deploy of a nixos host is run only with an address
\* that was resolved, from the outputs of the apply or from the static
\* configuration of the host.
C33_DeployOnlyWithAddress ==
    \A t \in Tasks :
      Count(cmds[t], "nixos_anywhere") > 0 => Resolved(t)

\* C34 (as claimed): in a run whose host list has one name twice, with no
\* other engine process about and no exception leaving a task, the task
\* that comes second to the lock gets it in the end, both tasks finish and
\* main reaches the summary.
C34_DuplicateHostFinishes ==
    ( /\ \E t, u \in 1 .. MaxHosts : t # u /\ NameOf(t) = NameOf(u)
      /\ [](ext = NoHost)
      /\ [](\A t \in 1 .. MaxHosts : pc[t] \notin {"raised", "cancelled"}) )
    => <>(mainPc = "summary" /\ \A t \in 1 .. MaxHosts : pc[t] = "done")

\* The ways to pair the entries of the host list with the results.
Pairings == { f \in [Tasks -> 1 .. Len(results)] :
                \A t, u \in Tasks : f[t] = f[u] => t = u }

\* C35: when main is at the summary, the results are as many as the
\* entries of the host list and pair off with them, each entry with a
\* result of its name and its outcome; a result is added by appending it
\* and is never changed or removed afterwards.
C35_OneResultPerHost ==
    /\ [](mainPc = "summary" =>
            /\ Len(results) = Len(selected)
            /\ \E f \in Pairings :
                 \A t \in Tasks : results[f[t]] = HostResult(NameOf(t), err[t]))
    /\ [][\/ results' = results
          \/ /\ mainPc = "gather"
             /\ \E t \in Tasks :
                  /\ pc[t] # "done" /\ pc'[t] = "done"
                  /\ results' = Append(results, HostResult(NameOf(t), err'[t]))]_vars

\* C35 witness: the summary of a run of two hosts, one that failed and
\* one that did not, the failed one reported first.
C35_Witness ==
    /\ mainPc = "summary" /\ Len(results) = 2
    /\ results[1].err # "none" /\ results[2].err = "none"
    /\ results[1].name # results[2].name

\* A measure of what is still ahead of task t's call: four steps (plan,
\* apply, destroy, sleep) for every attempt not yet begun, and the place
\* in the attempt under way.
StepsLeft(t) ==
    LET here == CASE pc[t] = "tf_init" -> 3
                  [] pc[t] = "tf_validate" -> 2
                  [] pc[t] = "tf_plan" -> 1
                  [] pc[t] = "tf_apply" -> 4
                  [] pc[t] = "tf_output" -> 1
                  [] pc[t] = "tf_destroy" -> 3
                  [] pc[t] = "tf_sleep" -> 2
                  [] OTHER -> 0
    IN  IF TfEnded(t) THEN 0
        ELSE here + 4 * (maxRetries[t] - Attempts(t))

\* C36: when every command and sleep ends, a terraform_apply call ends:
\* it returns or raises, after at most max_retries plans and as many
\* applies; every step brings the end nearer; a call that raises has just
\* seen a command fail, init, validate, or the plan or apply of the last
\* attempt; and once ended the call does nothing more.
C36_ApplyTerminates ==
    /\ <>(\A t \in Tasks : TfEnded(t))
    /\ [](\A t \in Tasks :
            /\ Count(cmds[t], "plan") <= maxRetries[t]
            /\ Count(cmds[t], "apply") <= Count(cmds[t], "plan")
            /\ pc[t] = "tf_exc" =>
                  /\ cmds[t] # << >> /\ ~cmds[t][Len(cmds[t])].ok
                  /\ \/ cmds[t][Len(cmds[t])].cmd \in {"init", "validate"}
                     \/ /\ cmds[t][Len(cmds[t])].cmd \in {"plan", "apply"}
                        /\ Count(cmds[t], "plan") = maxRetries[t])
    /\ [][\A t \in Tasks :
            /\ StepsLeft(t)' < StepsLeft(t)
            /\ ~TfEnded(t)]_vars

\* C36 witness: with max_retries = 3 the call raised after three plans, the
\* last of which failed, two destroys and two sleeps.
C36_Witness ==
    \E t \in Tasks :
      /\ pc[t] = "tf_exc" /\ maxRetries[t] = 3
      /\ Count(cmds[t], "plan") = 3 /\ Destroys(t) = 2
      /\ IsLast(cmds[t], Cmd("plan", FALSE))
      /\ Len(SleepSecs(cmds[t])) = 2

\* The sleeps of log l that come directly after a destroy: the backoff
\* waits of terraform_apply.
BackoffWaits(l) ==
    { i \in 2 .. Len(l) : l[i].cmd = "sleep" /\ l[i - 1].cmd = "destroy" }

\* C37: provision_host calls terraform_apply with max_retries = 2, so in
\* the pipeline of a host there are at most 2 plans and 2 applies, at most
\* one destroy, and at most one backoff wait, which is of 15 seconds and
\* follows the destroy.
C37_BudgetOfTwo ==
    \A t \in Tasks :
      LET l == cmds[t]
      IN  /\ maxRetries[t] \in {0, 2}
          /\ pc[t] \in {"tf_init", "tf_validate", "tf_plan", "tf_apply",
                        "tf_output", "tf_destroy", "tf_sleep"}
                => maxRetries[t] = 2
          /\ Count(l, "plan") <= 2 /\ Count(l, "apply") <= 2
          /\ Count(l, "destroy") <= 1
          /\ Cardinality(BackoffWaits(l)) <= 1
          /\ \A i \in BackoffWaits(l) : l[i].secs = 15
          /\ \A i \in 1 .. Len(l) :
                (l[i].cmd = "sleep" /\ i \notin BackoffWaits(l))
                => l[i] = Sleep(BootGrace) /\ i > 1 /\ l[i - 1].cmd = "output"

\* C37 witness: a host whose first attempt failed at the apply, was
\* destroyed, waited 15 seconds, and failed at the second plan: two plans,
\* one apply, one destroy, one wait, and a failed result.
C37_Witness ==
    \E t \in Tasks :
      /\ pc[t] = "done" /\ results = << HostResult(NameOf(t), "ShellError") >>
      /\ Count(cmds[t], "plan") = 2 /\ Count(cmds[t], "apply") = 1
      /\ Count(cmds[t], "destroy") = 1
      /\ SleepSecs(cmds[t]) = << 15 >>
      /\ IsLast(cmds[t], Cmd("plan", FALSE))

====
